---- MODULE Spec2Model ----
(***************************************************************************)
(* A model of the homophone resolution engine of babaie17/audioDetection:  *)
(* the English number-word codec, the language filter, the zh and en       *)
(* resolvers of api/transcribe.js with their module-scope caches, and the  *)
(* client-side pinyin loader (public/js/pinyin-loader.js).                 *)
(*                                                                         *)
(* A JavaScript string is a sequence of characters.  An ASCII character is *)
(* the one-character string; a character outside ASCII is a named atom     *)
(* (see the character classes below).                                      *)
(***************************************************************************)
EXTENDS Integers, Sequences, FiniteSets, TLC

(***************************************************************************)
(* Characters and the String methods the code uses                         *)
(***************************************************************************)

UpperCase ==
  << "A","B","C","D","E","F","G","H","I","J","K","L","M",
     "N","O","P","Q","R","S","T","U","V","W","X","Y","Z" >>

LowerCase ==
  << "a","b","c","d","e","f","g","h","i","j","k","l","m",
     "n","o","p","q","r","s","t","u","v","w","x","y","z" >>

Range(f) == { f[i] : i \in DOMAIN f }

UpperSet == Range(UpperCase)
LowerSet == Range(LowerCase)
DigitSet == {"0","1","2","3","4","5","6","7","8","9"}

\* \s of a JavaScript regular expression: the space and the tab (atom "TAB").
WhiteSpace == {" ", "TAB"}

\* One character of String.prototype.toLowerCase: the ASCII capitals, and of
\* the others the capital a with caron (U+01CD, lower case U+01CE).
LowerChar(c) ==
  IF c \in UpperSet
    THEN LowerCase[CHOOSE i \in 1..26 : UpperCase[i] = c]
  ELSE IF c = "U+01CD" THEN "U+01CE"
  ELSE c

ToLowerCase(s) == [i \in 1..Len(s) |-> LowerChar(s[i])]

RECURSIVE TrimStart(_)
TrimStart(s) ==
  IF s # <<>> /\ Head(s) \in WhiteSpace THEN TrimStart(Tail(s)) ELSE s

RECURSIVE TrimEnd(_)
TrimEnd(s) ==
  IF s # <<>> /\ s[Len(s)] \in WhiteSpace
    THEN TrimEnd(SubSeq(s, 1, Len(s) - 1))
    ELSE s

\* String.prototype.trim
Trim(s) == TrimEnd(TrimStart(s))

\* s.includes(c) for a one-character c
Includes(s, c) == \E i \in 1..Len(s) : s[i] = c

\* s.split(c) for a one-character separator c: "" splits to [""].
RECURSIVE SplitFrom(_, _, _)
SplitFrom(s, c, cur) ==
  IF s = <<>> THEN << cur >>
  ELSE IF Head(s) = c THEN << cur >> \o SplitFrom(Tail(s), c, <<>>)
  ELSE SplitFrom(Tail(s), c, Append(cur, Head(s)))

Split(s, c) == SplitFrom(s, c, <<>>)

\* s.replace(/\s+/g, ' '): every run of white space becomes one space.
RECURSIVE CollapseSpaces(_)
CollapseSpaces(s) ==
  IF s = <<>> THEN <<>>
  ELSE IF Head(s) \in WhiteSpace
    THEN << " " >> \o CollapseSpaces(TrimStart(s))
    ELSE << Head(s) >> \o CollapseSpaces(Tail(s))

\* s.replace(/\s*-\s*/g, '-'): white space around a hyphen is removed.
RECURSIVE TightenHyphens(_)
TightenHyphens(s) ==
  IF s = <<>> THEN <<>>
  ELSE IF Head(s) = "-"
    THEN << "-" >> \o TightenHyphens(TrimStart(Tail(s)))
  ELSE IF Head(s) \in WhiteSpace /\ TrimStart(s) # <<>> /\ Head(TrimStart(s)) = "-"
    THEN TightenHyphens(TrimStart(s))
  ELSE << Head(s) >> \o TightenHyphens(Tail(s))

\* The decimal string of n >= 0 (String(n)).
RECURSIVE DecimalString(_)
DecimalString(n) ==
  LET d == << "0","1","2","3","4","5","6","7","8","9" >>[(n % 10) + 1]
  IN  IF n < 10 THEN << d >> ELSE Append(DecimalString(n \div 10), d)

(***************************************************************************)
(* Characters outside ASCII, named by code point                           *)
(***************************************************************************)

\* Script=Han: U+597D hao3 "good", U+53F7 hao4, U+8C6A hao2, U+957F
\* zhang3/chang2, U+5F20 zhang1, U+5E38 chang2, U+5417 ma (neutral),
\* U+5988 ma1, U+4F60 ni3.
HanSet ==
  { "U+597D", "U+53F7", "U+8C6A", "U+957F", "U+5F20", "U+5E38",
    "U+5417", "U+5988", "U+4F60" }

\* Script=Hiragana, Katakana, Hangul: one character of each.
HiraganaSet == { "U+3042" }
KatakanaSet == { "U+30A2" }
HangulSet == { "U+D55C" }

\* U+3002, the ideographic full stop.
IdeographicStop == "U+3002"

(***************************************************************************)
(* English number-word codec (api/transcribe.js)                           *)
(***************************************************************************)

\* The largest integer of the codec's range.
MaxInt == 9999

\* Number.NaN: the result of a failed parse (no integer of the range).
NaN == -1

\* null: intToEnglishWord's result outside the range (no word is empty).
NullWord == <<>>

\* SMALLS, in key order: SMALLS[i] is the key whose value is i - 1.
SMALLS ==
  << <<"z","e","r","o">>,
     <<"o","n","e">>,
     <<"t","w","o">>,
     <<"t","h","r","e","e">>,
     <<"f","o","u","r">>,
     <<"f","i","v","e">>,
     <<"s","i","x">>,
     <<"s","e","v","e","n">>,
     <<"e","i","g","h","t">>,
     <<"n","i","n","e">>,
     <<"t","e","n">>,
     <<"e","l","e","v","e","n">>,
     <<"t","w","e","l","v","e">>,
     <<"t","h","i","r","t","e","e","n">>,
     <<"f","o","u","r","t","e","e","n">>,
     <<"f","i","f","t","e","e","n">>,
     <<"s","i","x","t","e","e","n">>,
     <<"s","e","v","e","n","t","e","e","n">>,
     <<"e","i","g","h","t","e","e","n">>,
     <<"n","i","n","e","t","e","e","n">> >>

\* TENS, in key order: TENS[i] is the key whose value is 10 * (i + 1).
TENS ==
  << <<"t","w","e","n","t","y">>,
     <<"t","h","i","r","t","y">>,
     <<"f","o","r","t","y">>,
     <<"f","i","f","t","y">>,
     <<"s","i","x","t","y">>,
     <<"s","e","v","e","n","t","y">>,
     <<"e","i","g","h","t","y">>,
     <<"n","i","n","e","t","y">> >>

HundredWord == <<"h","u","n","d","r","e","d">>
ThousandWord == <<"t","h","o","u","s","a","n","d">>
AndWord == <<"a","n","d">>

\* SMALLS[p] !== undefined, and SMALLS[p]
IsSmall(p) == \E i \in DOMAIN SMALLS : SMALLS[i] = p
SmallValue(p) == (CHOOSE i \in DOMAIN SMALLS : SMALLS[i] = p) - 1

\* TENS[p] !== undefined (every value of TENS is truthy), and TENS[p]
IsTens(p) == \E i \in DOMAIN TENS : TENS[i] = p
TensValue(p) == 10 * ((CHOOSE i \in DOMAIN TENS : TENS[i] = p) + 1)

normalizeNumberWord(s) ==
  TightenHyphens(CollapseSpaces(ToLowerCase(Trim(s))))

\* The token loop of englishWordToInt over parts[i..], with its two
\* accumulators; NaN as soon as a token fails.
RECURSIVE WordLoop(_, _, _, _)
WordLoop(parts, i, total, current) ==
  IF i > Len(parts)
    THEN IF total + current > MaxInt THEN NaN ELSE total + current
  ELSE LET p == parts[i] IN
    IF IsSmall(p) THEN WordLoop(parts, i + 1, total, current + SmallValue(p))
    ELSE IF IsTens(p) THEN WordLoop(parts, i + 1, total, current + TensValue(p))
    ELSE IF p = HundredWord
      THEN IF current = 0 THEN NaN
           ELSE WordLoop(parts, i + 1, total, current * 100)
    ELSE IF p = ThousandWord
      THEN IF current = 0 THEN NaN
           ELSE WordLoop(parts, i + 1, total + current * 1000, 0)
    ELSE IF p = AndWord THEN WordLoop(parts, i + 1, total, current)
    ELSE NaN

englishWordToInt(s0) ==
  IF s0 = <<>> THEN NaN
  ELSE LET s == normalizeNumberWord(s0)
           hy == Split(s, "-")
       IN  IF Includes(s, "-") /\ IsTens(hy[1]) /\ IsSmall(hy[2])
             THEN TensValue(hy[1]) + SmallValue(hy[2])
             ELSE WordLoop(Split(s, " "), 1, 0, 0)

RECURSIVE intToEnglishWord(_)
intToEnglishWord(n) ==
  IF n < 0 \/ n > MaxInt THEN NullWord
  ELSE IF n < 20 THEN SMALLS[n + 1]
  ELSE IF n < 100 THEN
    LET tWord == TENS[(n \div 10) - 1]
        u == n % 10
    IN  IF u # 0 THEN tWord \o << "-" >> \o SMALLS[u + 1] ELSE tWord
  ELSE IF n < 1000 THEN
    LET hWord == SMALLS[(n \div 100) + 1]
        r == n % 100
    IN  IF r # 0
          THEN hWord \o << " " >> \o HundredWord \o << " " >> \o intToEnglishWord(r)
          ELSE hWord \o << " " >> \o HundredWord
  ELSE
    LET thWord == SMALLS[(n \div 1000) + 1]
        r == n % 1000
    IN  IF r # 0
          THEN thWord \o << " " >> \o ThousandWord \o << " " >> \o intToEnglishWord(r)
          ELSE thWord \o << " " >> \o ThousandWord

(***************************************************************************)
(* Language filter (api/transcribe.js)                                     *)
(***************************************************************************)

\* bcp47.split('-')[0].toLowerCase()
PrimarySubtag(bcp47) == ToLowerCase(Split(bcp47, "-")[1])

ZH == << "z", "h" >>
JA == << "j", "a" >>
KO == << "k", "o" >>
EN == << "e", "n" >>

\* The test, were Han the only script looked for.
looksLikeLatinOnlyHan(s) ==
  /\ \E i \in 1..Len(s) : s[i] \in UpperSet \cup LowerSet
  /\ ~ \E i \in 1..Len(s) : s[i] \in HanSet

looksLikeLatinOnly(s) ==
  LET hasLetter == \E i \in 1..Len(s) : s[i] \in UpperSet \cup LowerSet
      hasCJK == \E i \in 1..Len(s) :
                  s[i] \in HanSet \cup HiraganaSet \cup KatakanaSet \cup HangulSet
  IN  hasLetter /\ ~hasCJK

\* strictLanguageFilter with a fallback to the unfiltered first candidate.
strictLanguageFilterFallback(cands, bcp47) ==
  LET primary == PrimarySubtag(bcp47)
      keep(t) == ~looksLikeLatinOnly(t)
      filtered == SelectSeq(cands, keep)
  IN  IF primary \in { ZH, JA, KO }
        THEN IF Len(filtered) # 0 \/ cands = <<>> THEN filtered ELSE << cands[1] >>
        ELSE cands

strictLanguageFilter(cands, bcp47) ==
  LET primary == PrimarySubtag(bcp47)
      keep(t) == ~looksLikeLatinOnly(t)
      filtered == SelectSeq(cands, keep)
  IN  IF primary \in { ZH, JA, KO }
        THEN IF Len(filtered) # 0 THEN filtered ELSE <<>>
        ELSE cands

(***************************************************************************)
(* JavaScript Set and object helpers                                       *)
(***************************************************************************)

\* [...new Set(arr)]: the distinct elements in first-occurrence order.
RECURSIVE DedupeFrom(_, _)
DedupeFrom(arr, seen) ==
  IF arr = <<>> THEN seen
  ELSE IF \E i \in 1..Len(seen) : seen[i] = Head(arr)
    THEN DedupeFrom(Tail(arr), seen)
    ELSE DedupeFrom(Tail(arr), Append(seen, Head(arr)))

Dedupe(arr) == DedupeFrom(arr, <<>>)

\* {}: the object with no key.
EmptyObj == <<>>

\* obj[k] || []
GetOrEmpty(obj, k) == IF k \in DOMAIN obj THEN obj[k] ELSE <<>>

\* The object with the given << key, value >> pairs (at least one).
MakeObj(pairs) ==
  [ k \in { p[1] : p \in pairs } |-> (CHOOSE p \in pairs : p[1] = k)[2] ]

(***************************************************************************)
(* Pinyin keys (api/transcribe.js, public/js/pinyin-loader.js)             *)
(***************************************************************************)

\* toneMap, by code point: a U+0101 U+00E1 U+01CE U+00E0, e U+0113 U+00E9
\* U+011B U+00E8, i U+012B U+00ED U+01D0 U+00EC, o U+014D U+00F3 U+01D2
\* U+00F2, u U+016B U+00FA U+01D4 U+00F9, u-diaeresis U+01D6 U+01D8 U+01DA
\* U+01DC, and the bare U+00FC.
toneMap ==
  MakeObj({
    << "U+0101", <<"a","1">> >>, << "U+00E1", <<"a","2">> >>,
    << "U+01CE", <<"a","3">> >>, << "U+00E0", <<"a","4">> >>,
    << "U+0113", <<"e","1">> >>, << "U+00E9", <<"e","2">> >>,
    << "U+011B", <<"e","3">> >>, << "U+00E8", <<"e","4">> >>,
    << "U+012B", <<"i","1">> >>, << "U+00ED", <<"i","2">> >>,
    << "U+01D0", <<"i","3">> >>, << "U+00EC", <<"i","4">> >>,
    << "U+014D", <<"o","1">> >>, << "U+00F3", <<"o","2">> >>,
    << "U+01D2", <<"o","3">> >>, << "U+00F2", <<"o","4">> >>,
    << "U+016B", <<"u","1">> >>, << "U+00FA", <<"u","2">> >>,
    << "U+01D4", <<"u","3">> >>, << "U+00F9", <<"u","4">> >>,
    << "U+01D6", <<"v","1">> >>, << "U+01D8", <<"v","2">> >>,
    << "U+01DA", <<"v","3">> >>, << "U+01DC", <<"v","4">> >>,
    << "U+00FC", <<"v">> >> })

\* [1-5]
ToneDigits == { "1", "2", "3", "4", "5" }

\* t.replace(/[<the tone-marked vowels>]/g, m => toneMap[m] || m)
RECURSIVE FoldTones(_)
FoldTones(t) ==
  IF t = <<>> THEN <<>>
  ELSE (IF Head(t) \in DOMAIN toneMap THEN toneMap[Head(t)] ELSE << Head(t) >>)
       \o FoldTones(Tail(t))

AllLetters(t) == \A i \in 1..Len(t) : t[i] \in LowerSet

\* /[1-5]$/.test(t)
EndsWithTone(t) == t # <<>> /\ t[Len(t)] \in ToneDigits

\* t.replace(/[1-5]$/, '')
StripTone(t) == IF EndsWithTone(t) THEN SubSeq(t, 1, Len(t) - 1) ELSE t

\* /^[a-z]+[1-5]$/.test(t)
WithToneShape(t) == EndsWithTone(t) /\ Len(t) >= 2 /\ AllLetters(StripTone(t))

\* /^[a-z]+[1-5]?$/.test(t)
SyllableShape(t) == StripTone(t) # <<>> /\ AllLetters(StripTone(t))

\* The longest token detectSinglePinyin accepts.
MaxSyllableLen == 6

\* null, as detectSinglePinyin returns it (no key is empty).
NullKey == <<>>

detectSinglePinyin(s) ==
  LET t0 == ToLowerCase(Trim(s))
      t == FoldTones(t0)
  IN  IF t0 = <<>> \/ Includes(t0, " ") THEN NullKey
      ELSE IF ~SyllableShape(t) THEN NullKey
      ELSE IF Len(t) > MaxSyllableLen THEN NullKey
      ELSE t

\* The replacement, were it to keep the digits.
LettersAndDigits(t) == SelectSeq(t, LAMBDA c : c \in LowerSet \cup DigitSet)

\* t.replace(/[^a-z]/g, '')
LettersOnly(t) == SelectSeq(t, LAMBDA c : c \in LowerSet)

toPinyinKey(s) ==
  LET t == FoldTones(ToLowerCase(Trim(s)))
  IN  IF WithToneShape(t) THEN t ELSE LettersOnly(t)

(***************************************************************************)
(* The static data: /hanzi_to_pinyin.json and /pinyin-index/<base>.json    *)
(***************************************************************************)

HAO == << "h", "a", "o" >>
ZHANG == << "z", "h", "a", "n", "g" >>
CHANG == << "c", "h", "a", "n", "g" >>
MA == << "m", "a" >>

Reading(sound, tone) == [ sound |-> sound, tone |-> tone ]

\* The logogram table.  tone 0 stands for a reading with no tone (a falsy
\* tone); "Zhang" is written with a capital in one reading.
HanziDoc ==
  MakeObj({
    << "U+597D", << Reading(HAO, 3), Reading(HAO, 4) >> >>,
    << "U+957F", << Reading(<< "Z", "h", "a", "n", "g" >>, 3), Reading(CHANG, 2),
                    Reading(ZHANG, 3) >> >>,
    << "U+5417", << Reading(MA, 0) >> >> })

\* The shard documents that exist, by base; any other base is not found.
ShardDocs ==
  MakeObj({
    << HAO, MakeObj({ << HAO, << "U+597D", "U+53F7", "U+8C6A" >> >>,
                      << HAO \o << "3" >>, << "U+597D" >> >>,
                      << HAO \o << "4" >>, << "U+53F7" >> >> }) >>,
    << ZHANG, MakeObj({ << ZHANG, << "U+957F", "U+5F20" >> >>,
                        << ZHANG \o << "3" >>, << "U+957F" >> >> }) >>,
    << CHANG, MakeObj({ << CHANG, << "U+5E38", "U+957F" >> >> }) >>,
    << MA, MakeObj({ << MA \o << "1" >>, << "U+5988" >> >> }) >> })

\* What a fetch can come to: a response with r.ok, a response without, or a
\* rejection (a transport error).  A document that does not exist is never ok.
FetchOutcomes(exists) ==
  IF exists THEN { "ok", "notok", "reject" } ELSE { "notok", "reject" }

(***************************************************************************)
(* A request: one run of the handler from the point where it holds the     *)
(* candidates, or one call of the client loader.  Code between two awaited *)
(* fetches runs as one step; a fetch in flight is a request's position.    *)
(***************************************************************************)

\* null, as buildZhHomophones and buildEnHomophones return it.
NullResult == [ mode |-> "null" ]

\* null, as a toneLabel (no label is empty).
NullLabel == <<>>

\* The status of a run that has not responded.
NoStatus == 0

\* A request that has not started.
IdleReq ==
  [ pc |-> "idle", site |-> "none", call |-> "none",
    provider |-> "none", answers |-> <<>>, status |-> NoStatus, out |-> <<>>,
    language |-> <<>>, candidates |-> <<>>, arg |-> <<>>,
    readings |-> <<>>, bases |-> <<>>, idx |-> 0, acc |-> <<>>,
    zh |-> NullResult, en |-> NullResult, toneLabel |-> NullLabel,
    loads |-> <<>>, fetches |-> <<>> ]

\* The record of one shard load of a request: the key looked up, the base
\* whose shard was loaded, the shard object the load returned, and the list
\* the lookup in it came to.
Load(key, base, got, list) ==
  [ key |-> key, base |-> base, got |-> got, list |-> list ]

\* The request sends a fetch and waits for it at pc.
Await(rec, pc, kind, key) ==
  [ rec EXCEPT !.pc = pc,
               !.fetches = Append(@, [ kind |-> kind, key |-> key,
                                       outcome |-> "pending" ]) ]

\* The fetch the request waits for has come to outcome.
Settle(rec, outcome) ==
  [ rec EXCEPT !.fetches[Len(rec.fetches)].outcome = outcome ]

\* The status of json({ provider, candidates, zhAugment, enHomophones }, 200)
StatusOk == 200

\* The status of the handler's catch: json({ error, candidates: [] }, 500)
StatusError == 500

\* json({ ..., candidates, zhAugment, enHomophones }, 200): the handler
\* responds with its candidates.
Respond(rec) ==
  [ rec EXCEPT !.pc = "done", !.status = StatusOk, !.out = rec.candidates ]

(***************************************************************************)
(* buildEnHomophones (api/transcribe.js)                                   *)
(***************************************************************************)

\* The result list is cut to this many homophones (and the query asks for
\* at most as many: max=30).
MaxHomophones == 30

\* An answer of MaxHomophones words: "aa", "ab", ...
FullAnswer ==
  [ i \in 1..MaxHomophones |->
      << LowerCase[((i - 1) \div 26) + 1], LowerCase[((i - 1) % 26) + 1] >> ]

\* What api.datamuse.com answers for rel_hom=<word>: the words of its items.
\* two: to, too; to: too, two, "To", too (a repeat); one: a full answer.
DatamuseDoc ==
  MakeObj({ << << "t", "w", "o" >>, << << "t", "o" >>, << "t", "o", "o" >> >> >>,
            << << "t", "o" >>, << << "t", "o", "o" >>, << "t", "w", "o" >>, << "T", "o" >>, << "t", "o", "o" >> >> >>,
            << << "o", "n", "e" >>, FullAnswer >> })

\* (candidates && candidates[0] || '').trim()
EnTop(candidates) ==
  IF candidates # <<>> THEN Trim(candidates[1]) ELSE <<>>

\* /^\d+$/.test(top)
AllDigits(top) == top # <<>> /\ \A i \in 1..Len(top) : top[i] \in DigitSet

\* parseInt(top, 10) for a string of digits
RECURSIVE ParseInt(_)
ParseInt(top) ==
  IF top = <<>> THEN 0
  ELSE 10 * ParseInt(SubSeq(top, 1, Len(top) - 1))
       + (CHOOSE d \in 0..9 : DecimalString(d) = << top[Len(top)] >>)

\* wordForm, digitForm and queryWord for the top candidate (null is <<>>).
\* The forms, were the word form of a number word the spelling of its value.
EnFormsCanonical(top) ==
  IF AllDigits(top)
    THEN LET n == ParseInt(top)
             w == intToEnglishWord(n)
         IN  [ wordForm |-> w,
               queryWord |-> IF w # NullWord THEN w ELSE top,
               digitForm |-> DecimalString(n) ]
    ELSE LET n == englishWordToInt(top)
         IN  IF n # NaN
               THEN [ wordForm |-> intToEnglishWord(n),
                      queryWord |-> intToEnglishWord(n),
                      digitForm |-> DecimalString(n) ]
               ELSE [ wordForm |-> <<>>, queryWord |-> top, digitForm |-> <<>> ]

EnForms(top) ==
  IF AllDigits(top)
    THEN LET n == ParseInt(top)
             w == intToEnglishWord(n)
         IN  [ wordForm |-> w,
               queryWord |-> IF w # NullWord THEN w ELSE top,
               digitForm |-> DecimalString(n) ]
    ELSE LET n == englishWordToInt(top)
         IN  IF n # NaN
               THEN [ wordForm |-> normalizeNumberWord(top),
                      queryWord |-> normalizeNumberWord(top),
                      digitForm |-> DecimalString(n) ]
               ELSE [ wordForm |-> <<>>, queryWord |-> top, digitForm |-> <<>> ]

\* queryWord && /^[a-z-]+$/i.test(queryWord)
\* The test, were any non-empty query word to pass it.
EnQueriesAny(q) == q # <<>>

EnQueries(q) ==
  q # <<>> /\ \A i \in 1..Len(q) : q[i] \in LowerSet \cup UpperSet \cup { "-" }

\* items.map(x => x.word.trim()).filter(Boolean)
DatamuseWords(items) ==
  SelectSeq([ i \in 1..Len(items) |-> Trim(items[i]) ], LAMBDA w : w # <<>>)

\* The union and the cut, were the top token left in.
EnResultKeepTop(top, datamuse) ==
  LET f == EnForms(top)
      all == datamuse \o (IF f.wordForm # <<>> THEN << f.wordForm >> ELSE <<>>)
                      \o (IF f.digitForm # <<>> THEN << f.digitForm >> ELSE <<>>)
      homos == SelectSeq(Dedupe(all), LAMBDA w : w # <<>>)
  IN  IF Len(homos) = 0 THEN NullResult
      ELSE [ mode |-> "en", input |-> top,
             homophones |-> SubSeq(homos, 1,
                              IF Len(homos) < MaxHomophones THEN Len(homos)
                              ELSE MaxHomophones) ]

\* The union, the deletion of the top token and the cut to 30.
EnResult(top, datamuse) ==
  LET f == EnForms(top)
      all == datamuse \o (IF f.wordForm # <<>> THEN << f.wordForm >> ELSE <<>>)
                      \o (IF f.digitForm # <<>> THEN << f.digitForm >> ELSE <<>>)
      set == SelectSeq(Dedupe(all), LAMBDA w : w # ToLowerCase(top))
      homos == SelectSeq(set, LAMBDA w : w # <<>> /\ ToLowerCase(w) # ToLowerCase(top))
  IN  IF Len(homos) = 0 THEN NullResult
      ELSE [ mode |-> "en", input |-> top,
             homophones |-> SubSeq(homos, 1,
                              IF Len(homos) < MaxHomophones THEN Len(homos)
                              ELSE MaxHomophones) ]

\* buildEnHomophones up to its fetch, or to its end when it sends none.
EnEnter(rec) ==
  LET top == EnTop(rec.candidates)
  IN  IF PrimarySubtag(rec.language) # EN THEN Respond(rec)
      ELSE IF top = <<>> \/ \E i \in 1..Len(top) : top[i] \in WhiteSpace
        THEN Respond(rec)
      ELSE IF EnQueries(EnForms(top).queryWord)
        THEN Await(rec, "datamuse", "datamuse", EnForms(top).queryWord)
      ELSE Respond([ rec EXCEPT !.en = EnResult(top, <<>>) ])

\* buildEnHomophones from the answer of its fetch.
EnResume(rec, outcome) ==
  LET top == EnTop(rec.candidates)
      q == EnForms(top).queryWord
  IN  IF outcome = "reject" THEN Respond(Settle(rec, outcome))
      ELSE Respond([ Settle(rec, outcome) EXCEPT
             !.en = EnResult(top, IF outcome = "ok"
                                    THEN DatamuseWords(GetOrEmpty(DatamuseDoc, q))
                                    ELSE <<>>) ])

(***************************************************************************)
(* buildZhHomophones, lookupHanziReadings, loadPinyinShard                 *)
(***************************************************************************)

IsHan(c) == c \in HanSet

\* top, after the trim and the restriction to its Han characters (if any)
ZhTop(candidates) ==
  LET top == IF candidates # <<>> THEN Trim(candidates[1]) ELSE <<>>
      hanOnly == SelectSeq(top, IsHan)
  IN  IF hanOnly # <<>> THEN hanOnly ELSE top

\* The branch taken were the language not looked at.
ZhModeAnyLanguage(language, candidates) ==
  LET top == ZhTop(candidates)
  IN  IF top = <<>> THEN "none"
      ELSE IF Len(SelectSeq(top, IsHan)) = 1 THEN "singleChar"
      ELSE IF detectSinglePinyin(top) # NullKey THEN "singlePinyin"
      ELSE "none"

\* The branch taken were one Han character among several enough.
ZhModeAnyHan(language, candidates) ==
  LET top == ZhTop(candidates)
  IN  IF PrimarySubtag(language) # ZH THEN "none"
      ELSE IF top = <<>> THEN "none"
      ELSE IF Len(SelectSeq(top, IsHan)) >= 1 THEN "singleChar"
      ELSE IF detectSinglePinyin(top) # NullKey THEN "singlePinyin"
      ELSE "none"

\* The branch buildZhHomophones takes for the candidates.
ZhMode(language, candidates) ==
  LET top == ZhTop(candidates)
  IN  IF PrimarySubtag(language) # ZH THEN "none"
      ELSE IF top = <<>> THEN "none"
      ELSE IF Len(SelectSeq(top, IsHan)) = 1 THEN "singleChar"
      ELSE IF detectSinglePinyin(top) # NullKey THEN "singlePinyin"
      ELSE "none"

\* [...top].find(c => Han)
ZhChar(candidates) == SelectSeq(ZhTop(candidates), IsHan)[1]

\* The base of the first reading only.
BasesOfFirst(readings) ==
  IF readings = <<>> THEN <<>>
  ELSE SelectSeq(<< ToLowerCase(readings[1].sound) >>, LAMBDA b : b # <<>>)

\* The distinct lowercased sounds of the readings, empty ones dropped.
BasesOf(readings) ==
  Dedupe(SelectSeq([ i \in 1..Len(readings) |-> ToLowerCase(readings[i].sound) ],
                   LAMBDA b : b # <<>>))

\* The distinct truthy tones of the readings.
TonesOf(readings) ==
  Dedupe(SelectSeq([ i \in 1..Len(readings) |-> readings[i].tone ],
                   LAMBDA x : x # 0))

\* tones.join('/')
RECURSIVE JoinSlash(_)
JoinSlash(tones) ==
  IF tones = <<>> THEN <<>>
  ELSE IF Len(tones) = 1 THEN DecimalString(tones[1])
  ELSE DecimalString(tones[1]) \o << "/" >> \o JoinSlash(Tail(tones))

\* tones.length ? tones.join('/') : null
ToneLabelOf(readings) ==
  IF TonesOf(readings) = <<>> THEN NullLabel ELSE JoinSlash(TonesOf(readings))

\* A cache that never has an entry.
CacheHasNever(cache, base) == FALSE

\* SHARD_CACHE.has(base), shardCache.has(base)
CacheHas(cache, base) == base \in DOMAIN cache

\* buildZhHomophones returns result; the handler goes on to buildEnHomophones.
ZhReturn(rec, result) == EnEnter([ rec EXCEPT !.zh = result ])

\* The singlePinyin branch, were it to look the tone-qualified key up first.
SrvPinyinDoneByKey(rec, shard) ==
  LET singlePinyin == detectSinglePinyin(ZhTop(rec.candidates))
      baseKey == StripTone(singlePinyin)
      list == IF singlePinyin \in DOMAIN shard THEN shard[singlePinyin]
              ELSE GetOrEmpty(shard, baseKey)
  IN  ZhReturn([ rec EXCEPT !.loads = Append(@, Load(singlePinyin, baseKey, shard, list)) ],
               [ mode |-> "singlePinyin",
                 input |-> ZhTop(rec.candidates),
                 bases |-> << baseKey >>,
                 homophones |-> list,
                 toneLabel |-> IF EndsWithTone(singlePinyin)
                                 THEN << singlePinyin[Len(singlePinyin)] >>
                                 ELSE NullLabel ])

\* The singlePinyin branch once loadPinyinShard has returned shard.
SrvPinyinDone(rec, shard) ==
  LET singlePinyin == detectSinglePinyin(ZhTop(rec.candidates))
      baseKey == StripTone(singlePinyin)
  IN  ZhReturn([ rec EXCEPT !.loads = Append(@, Load(singlePinyin, baseKey, shard,
                                                     GetOrEmpty(shard, baseKey))) ],
               [ mode |-> "singlePinyin",
                 input |-> ZhTop(rec.candidates),
                 bases |-> << baseKey >>,
                 homophones |-> GetOrEmpty(shard, baseKey),
                 toneLabel |-> IF EndsWithTone(singlePinyin)
                                 THEN << singlePinyin[Len(singlePinyin)] >>
                                 ELSE NullLabel ])

\* One turn of the singleChar loop once loadPinyinShard has returned shard
\* for bases[idx]: the members of shard[b] join the set.
SrvAddShard(rec, shard) ==
  LET b == rec.bases[rec.idx]
  IN  [ rec EXCEPT !.acc = DedupeFrom(GetOrEmpty(shard, b), @),
                   !.loads = Append(@, Load(b, b, shard, GetOrEmpty(shard, b))),
                   !.idx = @ + 1 ]

\* The singleChar loop from bases[idx] on: it runs through the cached
\* shards and stops at the first base it has to fetch, or returns.
RECURSIVE SrvLoop(_, _)
SrvLoop(rec, cache) ==
  IF rec.idx > Len(rec.bases)
    THEN ZhReturn(rec, [ mode |-> "singleChar",
                         input |-> << ZhChar(rec.candidates) >>,
                         bases |-> rec.bases,
                         homophones |-> rec.acc,
                         toneLabel |-> rec.toneLabel ])
  ELSE IF CacheHas(cache, rec.bases[rec.idx])
    THEN SrvLoop(SrvAddShard(rec, cache[rec.bases[rec.idx]]), cache)
  ELSE Await(rec, "shard", "shard", rec.bases[rec.idx])

\* The singleChar branch once lookupHanziReadings has returned readings.
SrvWithReadings(rec, readings, cache) ==
  SrvLoop([ rec EXCEPT !.readings = readings,
                       !.bases = BasesOf(readings),
                       !.toneLabel = ToneLabelOf(readings),
                       !.acc = <<>>,
                       !.idx = 1 ],
          cache)

\* The handler from the call of buildZhHomophones to its first fetch (or to
\* its response); table is HANZI_MAP (<<>> for null) and cache SHARD_CACHE.
SrvEnter(rec, table, cache) ==
  LET mode == ZhMode(rec.language, rec.candidates)
      baseKey == StripTone(detectSinglePinyin(ZhTop(rec.candidates)))
  IN  IF mode = "singleChar"
        THEN IF table = <<>>
               THEN Await(rec, "table", "table", <<>>)
               ELSE SrvWithReadings(rec, GetOrEmpty(table[1], ZhChar(rec.candidates)),
                                    cache)
      ELSE IF mode = "singlePinyin"
        THEN IF CacheHas(cache, baseKey)
               THEN SrvPinyinDone(rec, cache[baseKey])
               ELSE Await(rec, "shard", "shard", baseKey)
      ELSE ZhReturn(rec, NullResult)

\* loadPinyinShard after its fetch: obj = r.ok ? await r.json() : {}
ShardObj(base, outcome) ==
  IF outcome = "ok" THEN ShardDocs[base] ELSE EmptyObj

\* SHARD_CACHE.set(base, obj)
\* The store, were it to clear the other entries.
CacheSetAlone(cache, base, obj) == [ b \in { base } |-> obj ]

CacheSet(cache, base, obj) ==
  [ b \in DOMAIN cache \cup { base } |-> IF b = base THEN obj ELSE cache[b] ]

(***************************************************************************)
(* The client loader (public/js/pinyin-loader.js): ensureHanziMap,         *)
(* loadHanziForPinyin, homophonesFromHanziWithTone and                     *)
(* homophonesFromPinyinWithTone                                            *)
(***************************************************************************)

\* shard[key] || [], with no fallback to the base key.
CliLookupNoFallback(shard, key, base) ==
  IF key \in DOMAIN shard THEN shard[key] ELSE <<>>

\* shard[key] || shard[base] || []
CliLookup(shard, key, base) ==
  IF key \in DOMAIN shard THEN shard[key]
  ELSE IF base \in DOMAIN shard THEN shard[base]
  ELSE <<>>

\* Array.isArray(hanziMap[ch]) ? hanziMap[ch] : []
CliReadings(table, ch) == GetOrEmpty(table[1], ch)

\* The call returns (or, with "failed", throws).
CliReturn(rec, pc, result) == [ rec EXCEPT !.pc = pc, !.zh = result ]

\* homophonesFromHanziWithTone once homophonesFromHanzi has returned: the
\* tones are read from hanziMap as it is then.
CliHanziDone(rec, table) ==
  CliReturn(rec, "done",
            [ mode |-> "hanziWithTone",
              homophones |-> rec.acc,
              toneLabel |-> ToneLabelOf(CliReadings(table, rec.arg[1])) ])

\* homophonesFromPinyinWithTone once loadHanziForPinyin has returned list.
CliPinyinDone(rec, list) ==
  LET key == toPinyinKey(rec.arg)
  IN  CliReturn(rec, "done",
                [ mode |-> "pinyinWithTone",
                  homophones |-> list,
                  toneLabel |-> IF EndsWithTone(key) THEN << key[Len(key)] >>
                                ELSE NullLabel ])

\* The caller of loadHanziForPinyin(bases[idx]) goes on with its list.
RECURSIVE CliLoop(_, _, _)
CliWithList(rec, list, table, cache) ==
  IF rec.call = "pinyinWithTone"
    THEN CliPinyinDone(rec, list)
    ELSE CliLoop([ rec EXCEPT !.acc = DedupeFrom(list, @), !.idx = @ + 1 ],
                 table, cache)

\* loadHanziForPinyin(bases[idx]) up to its fetch, or to its return when the
\* shard is cached (or the base empty); then its caller.
CliLoad(rec, table, cache) ==
  LET key == rec.bases[rec.idx]
      base == StripTone(key)
  IN  IF base = <<>> THEN CliWithList(rec, <<>>, table, cache)
      ELSE IF CacheHas(cache, base)
        THEN CliWithList([ rec EXCEPT !.loads =
                             Append(@, Load(key, base, cache[base],
                                            CliLookup(cache[base], key, base))) ],
                         CliLookup(cache[base], key, base), table, cache)
      ELSE Await(rec, "shard", "shard", base)

\* The loop of homophonesFromHanzi from bases[idx] on.
CliLoop(rec, table, cache) ==
  IF rec.idx > Len(rec.bases)
    THEN CliHanziDone(rec, table)
    ELSE CliLoad(rec, table, cache)

\* homophonesFromHanziWithTone once ensureHanziMap has returned.
CliHanzi(rec, table, cache) ==
  LET readings == CliReadings(table, rec.arg[1])
  IN  CliLoop([ rec EXCEPT !.readings = readings,
                           !.bases = BasesOf(readings),
                           !.acc = <<>>,
                           !.idx = 1 ],
              table, cache)

\* A call of the loader up to its first fetch (or to its return); table is
\* hanziMap (<<>> for null) and cache shardCache.
CliEnter(rec, table, cache) ==
  IF rec.call = "hanziWithTone"
    THEN IF table = <<>>
           THEN Await(rec, "table", "table", <<>>)
           ELSE CliHanzi(rec, table, cache)
  ELSE IF toPinyinKey(rec.arg) = <<>>
    THEN CliReturn(rec, "done", [ mode |-> "pinyinWithTone", homophones |-> <<>>,
                                  toneLabel |-> NullLabel ])
  ELSE CliLoad([ rec EXCEPT !.bases = << toPinyinKey(rec.arg) >>, !.idx = 1 ],
               table, cache)

\* hanziMap after the response to ensureHanziMap's fetch.
CliTableAfter(table, outcome) ==
  IF outcome = "ok" THEN << HanziDoc >> ELSE << EmptyObj >>

(***************************************************************************)
(* State                                                                   *)
(***************************************************************************)

VARIABLES
  num,      \* codec: the integer given to intToEnglishWord
  word,     \* codec: the word it returned
  back,     \* codec: what englishWordToInt made of that word
  cpc,      \* codec: "int" | "word" | "parsed"
  fcands,   \* filter: the provider's candidates (cands)
  flang,    \* filter: the language tag (bcp47)
  fout,     \* filter: what strictLanguageFilter returned
  fpc,      \* filter: "in" | "out"
  HANZI_MAP,    \* server: <<>> for null, << table >> once loaded
  SHARD_CACHE,  \* server: base -> shard object
  hanziMap,     \* client: <<>> for null, << table >> once loaded
  shardCache,   \* client: base -> shard object
  req,          \* the requests, by number
  callIn,   \* one call of a function: its input
  callOut,  \* one call of a function: what it has come to
  callPc    \* one call of a function: the function, and how far it is

codecVars == << num, word, back, cpc >>
filterVars == << fcands, flang, fout, fpc >>

cacheVars == << HANZI_MAP, SHARD_CACHE, hanziMap, shardCache >>
resolverVars == << cacheVars, req >>

callVars == << callIn, callOut, callPc >>

vars == << codecVars, filterVars, resolverVars, callVars >>

(***************************************************************************)
(* Strings the inputs are drawn from                                       *)
(***************************************************************************)

\* Language tags: zh-CN, ZH-tw, ja-JP, ko-KR, en-US, EN, es-ES
LangTags ==
  { << "z","h","-","C","N" >>, << "Z","H","-","t","w" >>,
    << "j","a","-","J","P" >>, << "k","o","-","K","R" >>,
    << "e","n","-","U","S" >>, << "E","N" >>, << "e","s","-","E","S" >> }

\* Provider candidates for the filter: "hello", "hao3", U+4F60 U+597D,
\* "OK" U+597D, "123", U+3042 (hiragana), "ok" U+D55C (hangul),
\* "a" U+30A2 (katakana).
FilterPool ==
  { << "h","e","l","l","o" >>, << "h","a","o","3" >>,
    << "U+4F60", "U+597D" >>, << "O","K","U+597D" >>,
    << "1","2","3" >>, << "U+3042" >>, << "o","k","U+D55C" >>,
    << "a","U+30A2" >> }

\* The longest candidate list drawn for the filter.
MaxCands == 2

\* The number of requests (handler runs and loader calls) of one behaviour.
MaxRequests == 2

Requests == 1..MaxRequests

ZhCN == << "z","h","-","C","N" >>
EnUS == << "e","n","-","U","S" >>

\* A provider's answer: the fetch is rejected, or the response is non-ok, or
\* it is ok with a body (the text of the body for openai, the candidates
\* extracted from it for azure).
Rejected == [ outcome |-> "reject", body |-> <<>> ]
NotOk == [ outcome |-> "notok", body |-> <<>> ]
Ok(body) == [ outcome |-> "ok", body |-> body ]

\* What the handler's runs are drawn from: << provider, language, answers >>,
\* answers being the text of the body (openai) or, endpoint by endpoint,
\* the candidates extracted from the body (azure).
\* azure, zh: U+957F followed by U+3002 (one character, two bases);
\* azure, zh: U+4F60 (a character with no reading); openai, zh: "hao3",
\* "hao2", "hao"; azure, en: "Two"; azure, ja: U+597D; azure, zh: "hao3" from
\* the first endpoint, a non-ok response from the second and no candidate
\* from the third.
SrvInputs ==
  { << "azure", ZhCN, << Ok(<< << "U+957F", "U+3002" >> >>) >> >>,
    << "azure", ZhCN, << NotOk, Ok(<< << "U+4F60" >> >>) >> >>,
    << "openai", << "Z","H","-","t","w" >>, << Ok(<< "h", "a", "o", "3" >>) >> >>,
    << "openai", ZhCN, << Ok(<< "h", "a", "o", "2" >>) >> >>,
    << "openai", ZhCN, << Ok(<< "h", "a", "o" >>) >> >>,
    << "azure", EnUS, << Ok(<< << "T", "w", "o" >> >>) >> >>,
    << "azure", << "j","a","-","J","P" >>, << Ok(<< << "U+597D" >> >>) >> >>,
    << "azure", ZhCN, << Ok(<< << "h", "a", "o", "3" >> >>), NotOk, Ok(<<>>) >> >>,
    << "openai", EnUS, << Rejected >> >> }

\* What the loader's calls are drawn from: << function, argument >>.
\* U+957F; "hao3", "hao2", "ma2".
CliInputs ==
  { << "hanziWithTone", << "U+957F" >> >>,
    << "pinyinWithTone", << "h","a","o","3" >> >>,
    << "pinyinWithTone", << "h","a","o","2" >> >>,
    << "pinyinWithTone", << "m","a","2" >> >> }

\* All sequences over S of length at most n.
RECURSIVE SeqsUpTo(_, _)
SeqsUpTo(S, n) ==
  IF n = 0 THEN { <<>> }
  ELSE LET shorter == SeqsUpTo(S, n - 1)
       IN  shorter \cup { Append(q, x) : q \in shorter, x \in S }

(***************************************************************************)
(* The codec, applied to every integer of its range (and one beyond it)    *)
(***************************************************************************)

CodecIdle ==
  /\ num = 0
  /\ word = NullWord
  /\ back = NaN
  /\ cpc = "off"

ResolverIdle ==
  /\ HANZI_MAP = <<>>
  /\ SHARD_CACHE = <<>>
  /\ hanziMap = <<>>
  /\ shardCache = <<>>
  /\ req = [ r \in Requests |-> IdleReq ]

FilterIdle ==
  /\ fcands = <<>>
  /\ flang = <<>>
  /\ fout = <<>>
  /\ fpc = "off"

CallIdle ==
  /\ callIn = <<>>
  /\ callOut = <<>>
  /\ callPc = "off"

CodecInit ==
  /\ num \in 0..(MaxInt + 1)
  /\ word = NullWord
  /\ back = NaN
  /\ cpc = "int"
  /\ FilterIdle
  /\ ResolverIdle
  /\ CallIdle

\* word = intToEnglishWord(num)
IntToWord ==
  /\ cpc = "int"
  /\ word' = intToEnglishWord(num)
  /\ cpc' = "word"
  /\ UNCHANGED << num, back, filterVars, resolverVars, callVars >>

\* back = englishWordToInt(word)
WordToInt ==
  /\ cpc = "word"
  /\ word # NullWord
  /\ back' = englishWordToInt(word)
  /\ cpc' = "parsed"
  /\ UNCHANGED << num, word, filterVars, resolverVars, callVars >>

CodecNext == IntToWord \/ WordToInt

SpecCodec == CodecInit /\ [][CodecNext]_vars

\* C1: for every integer n with 0 <= n <= 9999, parsing the word form of n
\* gives n back: englishWordToInt(intToEnglishWord(n)) = n.
C1_RoundTrip == cpc = "parsed" => back = num

(***************************************************************************)
(* The language filter, applied to every candidate list and language       *)
(***************************************************************************)

FilterInit ==
  /\ fcands \in SeqsUpTo(FilterPool, MaxCands)
  /\ flang \in LangTags
  /\ fout = <<>>
  /\ fpc = "in"
  /\ CodecIdle
  /\ ResolverIdle
  /\ CallIdle

\* candidates = strictLanguageFilter(candidates, language)
ApplyFilter ==
  /\ fpc = "in"
  /\ fout' = strictLanguageFilter(fcands, flang)
  /\ fpc' = "out"
  /\ UNCHANGED << fcands, flang, codecVars, resolverVars, callVars >>

FilterNext == ApplyFilter

SpecFilter == FilterInit /\ [][FilterNext]_vars

AllLatinOnly(cands) == \A i \in 1..Len(cands) : looksLikeLatinOnly(cands[i])

\* The case of C2: a zh, ja or ko request whose candidates are all
\* Latin-only has been through the filter.
AllFilteredCase ==
  /\ fpc = "out"
  /\ PrimarySubtag(flang) \in { ZH, JA, KO }
  /\ fcands # <<>>
  /\ AllLatinOnly(fcands)

PunctSet ==
  { ".", "U+3002", "U+FF01", "U+FF1F", "!", "?", "U+FF0C", ",", "U+3001",
    "U+FF1B", ";", "U+FF1A", ":", "U+2026" }

\* t.replace(/[punct]+$/u, '')
RECURSIVE StripPunct(_)
StripPunct(t) ==
  IF t # <<>> /\ t[Len(t)] \in PunctSet
    THEN StripPunct(SubSeq(t, 1, Len(t) - 1))
    ELSE t

stripTrailingPunctIfSingle(s) ==
  IF s = <<>> THEN s
  ELSE IF Includes(Trim(s), " ") THEN Trim(s)
  ELSE StripPunct(Trim(s))

\* arr.map(stripTrailingPunctIfSingle).filter(Boolean)
normalizeCandidates(arr) ==
  SelectSeq([ i \in 1..Len(arr) |-> stripTrailingPunctIfSingle(arr[i]) ],
            LAMBDA s : s # <<>>)

\* The Azure path takes this many of the provider's candidates.
MaxCandidates == 5

\* .map(s => (s || '').trim()).filter(Boolean).slice(0, 5)
TopCandidates(nbest) ==
  LET kept == SelectSeq([ i \in 1..Len(nbest) |-> Trim(nbest[i]) ],
                        LAMBDA s : s # <<>>)
  IN  SubSeq(kept, 1, IF Len(kept) < MaxCandidates THEN Len(kept)
                      ELSE MaxCandidates)

\* The candidates, were the cut to five made after the filter and the
\* normalization.
AzureCandidatesCutLast(nbest, language) ==
  LET kept == SelectSeq([ i \in 1..Len(nbest) |-> Trim(nbest[i]) ],
                        LAMBDA s : s # <<>>)
      made == normalizeCandidates(strictLanguageFilter(kept, language))
  IN  SubSeq(made, 1, IF Len(made) < MaxCandidates THEN Len(made)
                      ELSE MaxCandidates)

\* The candidates the Azure path makes of one endpoint's answer; nbest is
\* what extractAzureCandidates made of the body.
AzureCandidates(nbest, language) ==
  normalizeCandidates(strictLanguageFilter(TopCandidates(nbest), language))

\* The same in the handler's other version, which has no normalizeCandidates
\* and falls back to the DisplayText dt of the body.
AzureCandidatesDisplay(nbest, dt, language) ==
  LET candidates == strictLanguageFilter(TopCandidates(nbest), language)
      fb == IF Trim(dt) # <<>> THEN strictLanguageFilter(<< Trim(dt) >>, language)
            ELSE <<>>
  IN  IF Len(candidates) = 0 /\ Len(fb) > 0 THEN fb ELSE candidates

\* The loop over the endpoints from the i-th on; answers[i] is the answer
\* of the i-th endpoint.
RECURSIVE AzureLoop(_, _, _)
AzureLoop(answers, i, language) ==
  IF i > Len(answers)
    THEN [ kind |-> "respond", status |-> StatusOk, candidates |-> <<>>,
           endpoint |-> 0 ]
  ELSE IF answers[i].outcome = "reject"
    THEN [ kind |-> "respond", status |-> StatusError, candidates |-> <<>>,
           endpoint |-> 0 ]
  ELSE IF answers[i].outcome = "notok"
    THEN AzureLoop(answers, i + 1, language)
  ELSE IF Len(AzureCandidates(answers[i].body, language)) > 0
    THEN [ kind |-> "augment", status |-> StatusOk,
           candidates |-> AzureCandidates(answers[i].body, language),
           endpoint |-> i ]
  ELSE AzureLoop(answers, i + 1, language)

\* The status of a provider's non-ok response (r.status).
StatusProvider == 502

\* The OpenAI path; answers[1] is the provider's answer.
OpenAiPath(answers) ==
  IF answers[1].outcome = "reject"
    THEN [ kind |-> "respond", status |-> StatusError, candidates |-> <<>>,
           endpoint |-> 0 ]
  ELSE IF answers[1].outcome = "notok"
    THEN [ kind |-> "respond", status |-> StatusProvider, candidates |-> <<>>,
           endpoint |-> 0 ]
  ELSE [ kind |-> "augment", status |-> StatusOk,
         candidates |-> normalizeCandidates(<< Trim(answers[1].body) >>),
         endpoint |-> 0 ]

\* The handler from the provider's answers to the candidates it goes on
\* with ("augment"), or to its response without any ("respond").
HandlerCandidates(provider, language, answers) ==
  IF provider = "openai" THEN OpenAiPath(answers)
  ELSE AzureLoop(answers, 1, language)

(***************************************************************************)
(* The resolver: concurrent handler runs over the module-scope caches      *)
(***************************************************************************)

ResolverInit ==
  /\ ResolverIdle
  /\ CodecIdle
  /\ FilterIdle
  /\ CallIdle

\* The fetch request r waits for.
Pending(r) == req[r].fetches[Len(req[r].fetches)]

\* Requests start in the order of their numbers.
MayStart(r) ==
  /\ req[r].pc = "idle"
  /\ IF r = 1 THEN TRUE ELSE req[r - 1].pc # "idle"

\* The handler makes its candidates of the provider's answers and calls
\* buildZhHomophones and buildEnHomophones, or responds without candidates.
SrvStart(r) ==
  /\ MayStart(r)
  /\ \E in \in SrvInputs :
       LET h == HandlerCandidates(in[1], in[2], in[3])
           rec == [ IdleReq EXCEPT !.site = "srv", !.call = "handler",
                                   !.provider = in[1], !.language = in[2],
                                   !.answers = in[3],
                                   !.candidates = h.candidates ]
       IN  req' = [ req EXCEPT ![r] =
                      IF h.kind = "augment"
                        THEN SrvEnter(rec, HANZI_MAP, SHARD_CACHE)
                        ELSE [ rec EXCEPT !.pc = "done", !.status = h.status ] ]
  /\ UNCHANGED << cacheVars, codecVars, filterVars, callVars >>

\* HANZI_MAP, were a non-ok response stored as the empty table.
SrvTableAfterStoreEmpty(table, outcome) ==
  IF outcome = "ok" THEN << HanziDoc >> ELSE << EmptyObj >>

\* HANZI_MAP after the response to lookupHanziReadings' fetch.
SrvTableAfter(table, outcome) ==
  IF outcome = "ok" THEN << HanziDoc >> ELSE table

\* lookupHanziReadings, were it to answer a non-ok response with the
\* table's readings.
SrvReadingsAfterAnyway(table, outcome, ch) == GetOrEmpty(HanziDoc, ch)

\* lookupHanziReadings' result after the response to its fetch.
SrvReadingsAfter(table, outcome, ch) ==
  IF outcome = "ok" THEN GetOrEmpty(SrvTableAfter(table, outcome)[1], ch) ELSE <<>>

\* A rejected fetch, were it answered with an empty result.
SrvCaughtEmpty(rec) ==
  ZhReturn(Settle(rec, "reject"),
           [ mode |-> ZhMode(rec.language, rec.candidates),
             input |-> ZhTop(rec.candidates),
             bases |-> rec.bases,
             homophones |-> <<>>,
             toneLabel |-> NullLabel ])

\* A rejected fetch, were it to reach the handler's catch.
SrvCaughtByHandler(rec) ==
  [ Settle(rec, "reject") EXCEPT !.pc = "done", !.status = StatusError,
                                 !.out = <<>> ]

\* A fetch of buildZhHomophones rejects: its catch returns null.
SrvCaught(rec) == ZhReturn(Settle(rec, "reject"), NullResult)

\* lookupHanziReadings resumes from its fetch of /hanzi_to_pinyin.json.
SrvTableResp(r) ==
  /\ req[r].pc = "table"
  /\ req[r].site = "srv"
  /\ \E outcome \in FetchOutcomes(TRUE) :
       IF outcome = "reject"
         THEN /\ req' = [ req EXCEPT ![r] = SrvCaught(req[r]) ]
              /\ UNCHANGED HANZI_MAP
         ELSE /\ HANZI_MAP' = SrvTableAfter(HANZI_MAP, outcome)
              /\ req' = [ req EXCEPT ![r] =
                   SrvWithReadings(Settle(req[r], outcome),
                                   SrvReadingsAfter(HANZI_MAP, outcome,
                                                    ZhChar(req[r].candidates)),
                                   SHARD_CACHE) ]
  /\ UNCHANGED << SHARD_CACHE, hanziMap, shardCache, codecVars, filterVars, callVars >>

\* buildZhHomophones goes on with the shard loadPinyinShard returned.
SrvWithShard(rec, obj, cache) ==
  IF ZhMode(rec.language, rec.candidates) = "singleChar"
    THEN SrvLoop(SrvAddShard(rec, obj), cache)
    ELSE SrvPinyinDone(rec, obj)

\* loadPinyinShard resumes from its fetch of /pinyin-index/<base>.json.
SrvShardResp(r) ==
  /\ req[r].pc = "shard"
  /\ req[r].site = "srv"
  /\ LET base == Pending(r).key IN
     \E outcome \in FetchOutcomes(base \in DOMAIN ShardDocs) :
       IF outcome = "reject"
         THEN /\ req' = [ req EXCEPT ![r] = SrvCaught(req[r]) ]
              /\ UNCHANGED SHARD_CACHE
         ELSE /\ SHARD_CACHE' = CacheSet(SHARD_CACHE, base, ShardObj(base, outcome))
              /\ req' = [ req EXCEPT ![r] =
                   SrvWithShard(Settle(req[r], outcome), ShardObj(base, outcome),
                                SHARD_CACHE') ]
  /\ UNCHANGED << HANZI_MAP, hanziMap, shardCache, codecVars, filterVars, callVars >>

\* buildEnHomophones resumes from its fetch of api.datamuse.com.
SrvEnResp(r) ==
  /\ req[r].pc = "datamuse"
  /\ \E outcome \in FetchOutcomes(TRUE) :
       req' = [ req EXCEPT ![r] = EnResume(req[r], outcome) ]
  /\ UNCHANGED << cacheVars, codecVars, filterVars, callVars >>

\* A page calls homophonesFromHanziWithTone or homophonesFromPinyinWithTone.
CliStart(r) ==
  /\ MayStart(r)
  /\ \E in \in CliInputs :
       req' = [ req EXCEPT ![r] =
                  CliEnter([ IdleReq EXCEPT !.site = "cli", !.call = in[1],
                                            !.arg = in[2] ],
                           hanziMap, shardCache) ]
  /\ UNCHANGED << cacheVars, codecVars, filterVars, callVars >>

\* ensureHanziMap resumes from its fetch of /hanzi_to_pinyin.json.
CliTableResp(r) ==
  /\ req[r].pc = "table"
  /\ req[r].site = "cli"
  /\ \E outcome \in FetchOutcomes(TRUE) :
       IF outcome = "reject"
         THEN /\ req' = [ req EXCEPT ![r] =
                           CliReturn(Settle(req[r], outcome), "failed", NullResult) ]
              /\ UNCHANGED hanziMap
         ELSE /\ hanziMap' = CliTableAfter(hanziMap, outcome)
              /\ req' = [ req EXCEPT ![r] =
                           CliHanzi(Settle(req[r], outcome), hanziMap', shardCache) ]
  /\ UNCHANGED << HANZI_MAP, SHARD_CACHE, shardCache, codecVars, filterVars, callVars >>

\* loadHanziForPinyin resumes from its fetch of /pinyin-index/<base>.json.
CliShardResp(r) ==
  /\ req[r].pc = "shard"
  /\ req[r].site = "cli"
  /\ LET base == Pending(r).key
         key == req[r].bases[req[r].idx]
     IN
     \E outcome \in FetchOutcomes(base \in DOMAIN ShardDocs) :
       IF outcome = "reject"
         THEN /\ req' = [ req EXCEPT ![r] =
                           CliReturn(Settle(req[r], outcome), "failed", NullResult) ]
              /\ UNCHANGED shardCache
         ELSE /\ shardCache' = CacheSet(shardCache, base, ShardObj(base, outcome))
              /\ req' = [ req EXCEPT ![r] =
                   CliWithList([ Settle(req[r], outcome) EXCEPT !.loads =
                                   Append(@, Load(key, base, shardCache'[base],
                                                  CliLookup(shardCache'[base], key, base))) ],
                               CliLookup(shardCache'[base], key, base),
                               hanziMap, shardCache') ]
  /\ UNCHANGED << HANZI_MAP, SHARD_CACHE, hanziMap, codecVars, filterVars, callVars >>

ResolverNext ==
  \E r \in Requests :
    \/ SrvStart(r)
    \/ SrvTableResp(r)
    \/ SrvShardResp(r)
    \/ SrvEnResp(r)
    \/ CliStart(r)
    \/ CliTableResp(r)
    \/ CliShardResp(r)

Spec == ResolverInit /\ [][ResolverNext]_vars

(***************************************************************************)
(* Properties of the resolver                                              *)
(***************************************************************************)

SrvDone(r) == req[r].site = "srv" /\ req[r].pc = "done"
CliDone(r) == req[r].site = "cli" /\ req[r].pc = "done"

NoRepeat(s) == \A i, j \in 1..Len(s) : s[i] = s[j] => i = j

\* The distinct bases of a reading list, as a set.
DistinctBases(readings) ==
  { ToLowerCase(readings[i].sound) : i \in 1..Len(readings) } \ { <<>> }

\* The tones of a reading list, each at its first occurrence.
FirstTones(readings) ==
  LET first == SelectSeq([ i \in 1..Len(readings) |-> i ],
                 LAMBDA i : /\ readings[i].tone # 0
                            /\ \A j \in 1..(i - 1) : readings[j].tone # readings[i].tone)
  IN  [ k \in 1..Len(first) |-> readings[first[k]].tone ]

\* label is the given tones joined by "/" (null when there is none).
IsToneLabel(label, tones) ==
  IF tones = <<>> THEN label = NullLabel
  ELSE Split(label, "/") = [ k \in 1..Len(tones) |-> DecimalString(tones[k]) ]

\* The members of the base-keyed lists of the shards a request loaded.
LoadedMembers(rec) ==
  UNION { Range(GetOrEmpty(rec.loads[i].got, rec.loads[i].base)) :
            i \in 1..Len(rec.loads) }

\* The bases a request loaded a shard for.
LoadedBases(rec) == { rec.loads[i].base : i \in 1..Len(rec.loads) }

\* C3: for a single Han character (in particular one whose readings have
\* two or more distinct bases) the singleChar result's homophones are the
\* duplicate-free union of the base-keyed lists of the shards of all its
\* bases, bases lists every distinct base once, and toneLabel is the distinct
\* tones of all readings joined by "/" in the order of first occurrence; the
\* loader's homophonesFromHanzi gives the same union.
C3_PolyphonyUnion ==
  \A r \in Requests :
    /\ (SrvDone(r) /\ req[r].zh.mode = "singleChar") =>
         /\ Range(req[r].zh.bases) = DistinctBases(req[r].readings)
         /\ NoRepeat(req[r].zh.bases)
         /\ LoadedBases(req[r]) = DistinctBases(req[r].readings)
         /\ Range(req[r].zh.homophones) = LoadedMembers(req[r])
         /\ NoRepeat(req[r].zh.homophones)
         /\ IsToneLabel(req[r].zh.toneLabel, FirstTones(req[r].readings))
    /\ (CliDone(r) /\ req[r].call = "hanziWithTone") =>
         /\ LoadedBases(req[r]) = DistinctBases(req[r].readings)
         /\ Range(req[r].zh.homophones) = LoadedMembers(req[r])
         /\ NoRepeat(req[r].zh.homophones)

C3_Witness ==
  \E r \in Requests :
    /\ SrvDone(r)
    /\ req[r].zh.mode = "singleChar"
    /\ Cardinality(DistinctBases(req[r].readings)) = 2
    /\ req[r].zh.bases = << ZHANG, CHANG >>
    /\ req[r].zh.homophones = << "U+957F", "U+5F20", "U+5E38" >>
    /\ req[r].zh.toneLabel = << "3", "/", "2" >>

\* A handler run that has answered with a singlePinyin result.
PinyinCase(r) == SrvDone(r) /\ req[r].zh.mode = "singlePinyin"

\* The key of a singlePinyin request, and the shard its load returned.
PinyinKey(r) == detectSinglePinyin(ZhTop(req[r].candidates))
PinyinShard(r) == req[r].loads[1].got

\* The trailing digit of key, or null.
TrailingTone(key) ==
  IF key[Len(key)] \in { "1", "2", "3", "4", "5" } THEN << key[Len(key)] >>
  ELSE NullLabel

CliPinyinCase(r) ==
  CliDone(r) /\ req[r].call = "pinyinWithTone" /\ req[r].loads # <<>>

\* The request has had a response of the given kind to a shard fetch.
ShardFetched(rec, outcome) ==
  \E k \in 1..Len(rec.fetches) :
    rec.fetches[k].kind = "shard" /\ rec.fetches[k].outcome = outcome

\* C5: for a key with a tone digit whose tone-qualified key is absent from
\* the loaded shard, the lookup (server and loader) returns the shard's
\* base-keyed entry, or the empty list when that is absent too or the shard
\* fetch was non-ok, and does not throw; loadHanziForPinyin returns
\* shard[key] if present, else shard[base], else [].
C5_ToneFallback ==
  \A r \in Requests :
    /\ (PinyinCase(r) /\ EndsWithTone(PinyinKey(r))
          /\ PinyinKey(r) \notin DOMAIN PinyinShard(r)) =>
         req[r].zh.homophones =
           IF StripTone(PinyinKey(r)) \in DOMAIN PinyinShard(r)
             THEN PinyinShard(r)[StripTone(PinyinKey(r))]
             ELSE <<>>
    /\ CliPinyinCase(r) =>
         LET key == toPinyinKey(req[r].arg)
             shard == PinyinShard(r)
         IN  req[r].zh.homophones =
               IF key \in DOMAIN shard THEN shard[key]
               ELSE IF StripTone(key) \in DOMAIN shard THEN shard[StripTone(key)]
               ELSE <<>>
    /\ ((PinyinCase(r) \/ CliPinyinCase(r)) /\ ShardFetched(req[r], "notok")) =>
         req[r].zh.homophones = <<>>
    /\ req[r].pc = "failed" => ShardFetched(req[r], "reject")
                               \/ req[r].call = "hanziWithTone"
    /\ (SrvDone(r) /\ ZhMode(req[r].language, req[r].candidates) = "singlePinyin"
          /\ req[r].zh = NullResult) => ShardFetched(req[r], "reject")

C5_Witness ==
  \E r \in Requests :
    /\ CliPinyinCase(r)
    /\ toPinyinKey(req[r].arg) = << "h","a","o","2" >>
    /\ PinyinShard(r) = ShardDocs[HAO]
    /\ toPinyinKey(req[r].arg) \notin DOMAIN PinyinShard(r)
    /\ req[r].zh.homophones = ShardDocs[HAO][HAO]

\* The shard cache of a site.
CacheOf(site) == IF site = "srv" THEN SHARD_CACHE ELSE shardCache

\* The step sends no fetch of base's shard document at site.
NoShardFetch(site, base) ==
  \A r \in Requests :
    req'[r].site = site =>
      \A k \in (Len(req[r].fetches) + 1)..Len(req'[r].fetches) :
        ~ (req'[r].fetches[k].kind = "shard" /\ req'[r].fetches[k].key = base)

\* The indices of the loads of request r that start in the step: all that
\* the step records, but the one whose fetch was under way.
StartedLoads(old, new) ==
  (Len(old.loads) + (IF old.pc = "shard" THEN 2 ELSE 1)) .. Len(new.loads)

\* C6: once a load of a base has written its entry (the document, or the
\* empty shard on a non-ok response), every load of that base that starts
\* afterwards returns that entry and sends no fetch.
C6_Memoized ==
  [][ \A site \in { "srv", "cli" } :
        \A b \in DOMAIN CacheOf(site) :
          /\ NoShardFetch(site, b)
          /\ \A r \in Requests :
               req'[r].site = site =>
                 \A i \in StartedLoads(req[r], req'[r]) :
                   req'[r].loads[i].base = b =>
                     req'[r].loads[i].got = CacheOf(site)[b] ]_vars

C6_Witness ==
  \E r \in Requests :
    /\ req[r].pc = "done"
    /\ req[r].site \in { "srv", "cli" }
    /\ \E i \in 1..Len(req[r].loads) :
         /\ req[r].fetches = <<>>
         /\ req[r].loads[i].base \in DOMAIN CacheOf(req[r].site)
         /\ req[r].loads[i].got = CacheOf(req[r].site)[req[r].loads[i].base]

\* The fetch request r waited for is rejected in the step.
RejectedNow(r, kind) ==
  /\ req[r].pc = kind
  /\ req'[r].fetches[Len(req[r].fetches)].outcome = "reject"

TableOf(site) == IF site = "srv" THEN HANZI_MAP ELSE hanziMap

\* The step sends no fetch of the table document at site.
NoTableFetch(site) ==
  \A r \in Requests :
    req'[r].site = site =>
      \A k \in (Len(req[r].fetches) + 1)..Len(req'[r].fetches) :
        req'[r].fetches[k].kind # "table"

\* A fetch of the table at site has been answered (ok or non-ok).
TableAnswered(site) ==
  \E r \in Requests :
    /\ req[r].site = site
    /\ \E k \in 1..Len(req[r].fetches) :
         /\ req[r].fetches[k].kind = "table"
         /\ req[r].fetches[k].outcome \in { "ok", "notok" }

\* The fetch of the table request r waited for is answered non-ok in the
\* step.
TableNotOkNow(r) ==
  /\ req[r].pc = "table"
  /\ req'[r].fetches[Len(req[r].fetches)].outcome = "notok"

C9_RaceHarmless ==
  [][ /\ \A site \in { "srv", "cli" } :
           /\ \A b \in DOMAIN CacheOf(site) :
                /\ b \in DOMAIN CacheOf(site)'
                /\ CacheOf(site)'[b] = CacheOf(site)[b]
           /\ TableOf(site) # <<>> => TableOf(site)' = TableOf(site)
      /\ \A r \in Requests :
           \A i \in (Len(req[r].loads) + 1)..Len(req'[r].loads) :
             req'[r].loads[i].base \in DOMAIN CacheOf(req'[r].site) =>
               req'[r].loads[i].got = CacheOf(req'[r].site)[req'[r].loads[i].base]
    ]_vars

\* C10: a zh augmentation is produced only when the primary subtag of the
\* language is zh, an English one only when it is en: at most one of the two
\* is non-null, and both are null for any other language.
C10_LanguageGate ==
  \A r \in Requests :
    req[r].site = "srv" =>
      /\ req[r].zh # NullResult => PrimarySubtag(req[r].language) = ZH
      /\ req[r].en # NullResult => PrimarySubtag(req[r].language) = EN
      /\ req[r].zh = NullResult \/ req[r].en = NullResult
      /\ PrimarySubtag(req[r].language) \notin { ZH, EN } =>
           req[r].zh = NullResult /\ req[r].en = NullResult

C10_Witness ==
  /\ SrvDone(1)
  /\ SrvDone(2)
  /\ req[1].zh # NullResult
  /\ req[1].en = NullResult
  /\ req[1].language = << "Z","H","-","t","w" >>
  /\ req[2].en # NullResult
  /\ req[2].zh = NullResult
  /\ req[2].language = EnUS

(***************************************************************************)
(* buildEnHomophones, called on one top candidate                          *)
(***************************************************************************)

\* Top candidates:
\* "Two", "two", "2", "to", "TO", "one", "1", "007", "121", "12345",
\* "twenty-five", "Twenty-Five", "twenty-fifteen", "twenty-zero", "forty-
\* two", "hello", "hello!", "co-op", "x1", "a b", "", "100", "21", "ten",
\* "nineteen", "ninety", "zero", "0", "10000", "-".
EnPool ==
  { << "T", "w", "o" >>,
    << "t", "w", "o" >>,
    << "2" >>,
    << "t", "o" >>,
    << "T", "O" >>,
    << "o", "n", "e" >>,
    << "1" >>,
    << "0", "0", "7" >>,
    << "1", "2", "1" >>,
    << "1", "2", "3", "4", "5" >>,
    << "t", "w", "e", "n", "t", "y", "-", "f", "i", "v", "e" >>,
    << "T", "w", "e", "n", "t", "y", "-", "F", "i", "v", "e" >>,
    << "t", "w", "e", "n", "t", "y", "-", "f", "i", "f", "t", "e", "e", "n" >>,
    << "t", "w", "e", "n", "t", "y", "-", "z", "e", "r", "o" >>,
    << "f", "o", "r", "t", "y", "-", "t", "w", "o" >>,
    << "h", "e", "l", "l", "o" >>,
    << "h", "e", "l", "l", "o", "!" >>,
    << "c", "o", "-", "o", "p" >>,
    << "x", "1" >>,
    << "a", " ", "b" >>,
    <<>>,
    << "1", "0", "0" >>,
    << "2", "1" >>,
    << "t", "e", "n" >>,
    << "n", "i", "n", "e", "t", "e", "e", "n" >>,
    << "n", "i", "n", "e", "t", "y" >>,
    << "z", "e", "r", "o" >>,
    << "0" >>,
    << "1", "0", "0", "0", "0" >>,
    << "-" >> }

EnInit ==
  /\ callPc = "en"
  /\ callIn \in EnPool
  /\ callOut = <<>>
  /\ CodecIdle
  /\ FilterIdle
  /\ ResolverIdle

\* buildEnHomophones([callIn], "en-US") up to its fetch, or to its return.
EnCall ==
  /\ callPc = "en"
  /\ LET rec == EnEnter([ IdleReq EXCEPT !.site = "srv", !.call = "handler",
                                         !.language = EnUS,
                                         !.candidates = << callIn >> ])
     IN  /\ callOut' = rec
         /\ callPc' = IF rec.pc = "datamuse" THEN "enWait" ELSE "enDone"
  /\ UNCHANGED << callIn, codecVars, filterVars, resolverVars >>

\* buildEnHomophones resumes from its fetch of api.datamuse.com.
EnReply ==
  /\ callPc = "enWait"
  /\ \E outcome \in FetchOutcomes(TRUE) :
       callOut' = EnResume(callOut, outcome)
  /\ callPc' = "enDone"
  /\ UNCHANGED << callIn, codecVars, filterVars, resolverVars >>

EnNext == EnCall \/ EnReply

SpecEn == EnInit /\ [][EnNext]_vars

\* The words the collaborator gave the call (none when it was not asked or
\* did not answer ok).
EnAnswer ==
  IF callOut.fetches # <<>> /\ callOut.fetches[1].outcome = "ok"
    THEN DatamuseWords(GetOrEmpty(DatamuseDoc, callOut.fetches[1].key))
    ELSE <<>>

\* The call has returned, and not through its catch.
EnReturned ==
  /\ callPc = "enDone"
  /\ callOut.fetches # <<>> => callOut.fetches[1].outcome # "reject"

SameWord(v, w) == ToLowerCase(v) = ToLowerCase(w)

\* The collaborator's words and the two forms, in the order they are added.
EnAdded ==
  LET f == EnForms(EnTop(<< callIn >>))
  IN  EnAnswer \o (IF f.wordForm # <<>> THEN << f.wordForm >> ELSE <<>>)
               \o (IF f.digitForm # <<>> THEN << f.digitForm >> ELSE <<>>)

\* A single token: not empty and without white space.
SingleToken(top) == top # <<>> /\ \A i \in 1..Len(top) : top[i] \notin WhiteSpace

\* The union the result is made of: what is added, but the top candidate in
\* any case of letters.
EnUnion ==
  IF SingleToken(EnTop(<< callIn >>))
    THEN { w \in Range(EnAdded) : w # <<>> /\ ~ SameWord(w, EnTop(<< callIn >>)) }
    ELSE {}

\* The homophones returned ([] when the result is null).
EnHomophones ==
  IF callOut.en = NullResult THEN <<>> ELSE callOut.en.homophones

Made(r) == HandlerCandidates(req[r].provider, req[r].language, req[r].answers)

\* A fetch of run r during the augmentation has failed: a non-ok response
\* or a rejection.
AugmentFailed(r) ==
  \E k \in 1..Len(req[r].fetches) :
    req[r].fetches[k].outcome \in { "notok", "reject" }

\* C12: whatever fetch of the augmentation fails (the table, a shard or the
\* homophone-word query; non-ok or rejected), the handler responds with
\* status 200 and exactly the candidates it made of the provider's answers;
\* a rejected table or shard fetch leaves the zh augmentation null, a failed
\* query leaves the English one without the collaborator's words.
C12_NoFatal ==
  \A r \in Requests :
    req[r].site = "srv" =>
      /\ req[r].pc \in { "table", "shard", "datamuse", "done" }
      /\ (req[r].pc = "done" /\ Made(r).kind = "augment") =>
           /\ req[r].status = StatusOk
           /\ req[r].out = Made(r).candidates
      /\ \A k \in 1..Len(req[r].fetches) :
           /\ (req[r].fetches[k].kind \in { "table", "shard" }
                 /\ req[r].fetches[k].outcome = "reject") =>
                req[r].pc = "done" /\ req[r].zh = NullResult
           /\ (req[r].fetches[k].kind = "datamuse"
                 /\ req[r].fetches[k].outcome = "reject") =>
                req[r].pc = "done" /\ req[r].en = NullResult

C12_Witness ==
  \E r \in Requests :
    /\ SrvDone(r)
    /\ AugmentFailed(r)
    /\ \E k \in 1..Len(req[r].fetches) :
         req[r].fetches[k].kind = "shard" /\ req[r].fetches[k].outcome = "reject"
    /\ req[r].status = StatusOk
    /\ req[r].out = << << "U+957F" >> >>
    /\ req[r].zh = NullResult

(***************************************************************************)
(* The Azure path's candidates, made of one endpoint's answer              *)
(***************************************************************************)

\* The longest answer of the provider.
MaxNBest == 6

\* The provider's candidates: "hello", U+4F60 U+597D U+3002 (with a full
\* stop to strip) and U+3002 alone (nothing is left of it).
NBestPool ==
  { << "h", "e", "l", "l", "o" >>, << "U+4F60", "U+597D", "U+3002" >>, << "U+3002" >> }

PipeInit ==
  /\ callPc = "pipe"
  /\ callIn \in [ language : { ZhCN, EnUS },
                   nbest : SeqsUpTo(NBestPool, MaxNBest),
                   dt : { <<>>, << "U+4F60", "U+597D" >> } ]
  /\ callOut = <<>>
  /\ CodecIdle
  /\ FilterIdle
  /\ ResolverIdle

\* The handler's two versions make their candidates of the answer.
PipeCandidates ==
  /\ callPc = "pipe"
  /\ callOut' = [ first |-> AzureCandidates(callIn.nbest, callIn.language),
                  second |-> AzureCandidatesDisplay(callIn.nbest, callIn.dt,
                                                    callIn.language) ]
  /\ callPc' = "pipeDone"
  /\ UNCHANGED << callIn, codecVars, filterVars, resolverVars >>

PipeNext == PipeCandidates

SpecPipe == PipeInit /\ [][PipeNext]_vars

\* The first (up to) n members of s.
FirstOf(s, n) == SubSeq(s, 1, IF Len(s) < n THEN Len(s) ELSE n)

\* The language filter lets candidate c through.
PassesFilter(c, language) ==
  \/ PrimarySubtag(language) \notin { ZH, JA, KO }
  \/ ~ (\E i \in 1..Len(c) : c[i] \in UpperSet \cup LowerSet)
  \/ \E i \in 1..Len(c) :
       c[i] \in HanSet \cup HiraganaSet \cup KatakanaSet \cup HangulSet

\* The members of s that pass the filter and are not empty once normalized,
\* normalized, in their order.
Survivors(s, language) ==
  LET passed == SelectSeq(s, LAMBDA c : PassesFilter(c, language))
  IN  SelectSeq([ i \in 1..Len(passed) |-> stripTrailingPunctIfSingle(passed[i]) ],
                LAMBDA c : c # <<>>)

\* C13 (as claimed): the candidates are the first (up to) 5 of the
\* provider's candidates that survive the language filter and the
\* normalization, in rank order: a survivor ranked after five dropped ones
\* is still returned.
C13_FirstFiveSurvivors ==
  callPc = "pipeDone" =>
    callOut.first = FirstOf(Survivors(callIn.nbest, callIn.language), MaxCandidates)

\* C13 (amended): the candidates are the survivors (of the language filter
\* and the normalization) among the provider's first 5 candidates, in rank
\* order: the cut to 5 is made before the filter, so that a survivor ranked
\* after the fifth is never returned.  In the handler's other version the
\* same holds without the normalization, and a list left empty is replaced
\* by the DisplayText when the filter lets that through.
C13_SurvivorsOfFirstFive ==
  callPc = "pipeDone" =>
    /\ Len(callOut.first) <= MaxCandidates
    /\ callOut.first = Survivors(FirstOf(callIn.nbest, MaxCandidates), callIn.language)
    /\ Len(callOut.second) <= MaxCandidates
    /\ LET passed == SelectSeq(FirstOf(callIn.nbest, MaxCandidates),
                               LAMBDA c : PassesFilter(c, callIn.language))
       IN  callOut.second =
             IF passed = <<>> /\ callIn.dt # <<>>
                  /\ PassesFilter(callIn.dt, callIn.language)
               THEN << callIn.dt >>
               ELSE passed

C13_Witness ==
  /\ callPc = "pipeDone"
  /\ callIn.language = ZhCN
  /\ Len(callIn.nbest) = MaxCandidates + 1
  /\ \A i \in 1..MaxCandidates : callIn.nbest[i] = << "h", "e", "l", "l", "o" >>
  /\ callIn.nbest[MaxCandidates + 1] = << "U+4F60", "U+597D", "U+3002" >>
  /\ callOut.first = <<>>
  /\ Survivors(callIn.nbest, callIn.language) = << << "U+4F60", "U+597D" >> >>

\* C14: for a language whose primary subtag is zh, ja or ko the filter
\* removes exactly the candidates that have an ASCII letter and no Han,
\* Hiragana, Katakana or Hangul character, and keeps the others in their
\* order; for any other language it returns the list unchanged.
C14_ScriptFilter ==
  fpc = "out" =>
    IF PrimarySubtag(flang) \in { ZH, JA, KO }
      THEN fout = SelectSeq(fcands,
                    LAMBDA c :
                      \/ ~ (\E i \in 1..Len(c) : c[i] \in UpperSet \cup LowerSet)
                      \/ \E i \in 1..Len(c) :
                           c[i] \in HanSet \cup HiraganaSet \cup KatakanaSet
                                      \cup HangulSet)
      ELSE fout = fcands

C14_Witness ==
  /\ fpc = "out"
  /\ PrimarySubtag(flang) = KO
  /\ fcands = << << "o","k","U+D55C" >>, << "h","e","l","l","o" >> >>
  /\ fout = << << "o","k","U+D55C" >> >>

\* The answer has a first candidate.
HasTop(answer) == answer.outcome = "ok" /\ answer.body # <<>>

\* The provider's top candidate of run r: the text of the body (openai), or
\* the first candidate of the first endpoint that has one (azure); <<>> when
\* there is none.
ProviderTop(r) ==
  IF req[r].provider = "openai"
    THEN req[r].answers[1].body
  ELSE IF \E i \in 1..Len(req[r].answers) : HasTop(req[r].answers[i])
    THEN req[r].answers[CHOOSE i \in 1..Len(req[r].answers) :
                          /\ HasTop(req[r].answers[i])
                          /\ \A j \in 1..(i - 1) : ~ HasTop(req[r].answers[j])
                       ].body[1]
  ELSE <<>>

\* A run for language zh whose provider's top candidate is a syllable with a
\* tone digit has responded, none of its fetches having been rejected.
TonedSyllableCase(r) ==
  /\ SrvDone(r)
  /\ PrimarySubtag(req[r].language) = ZH
  /\ WithToneShape(ProviderTop(r))
  /\ Len(ProviderTop(r)) <= MaxSyllableLen
  /\ \A k \in 1..Len(req[r].fetches) : req[r].fetches[k].outcome # "reject"

\* C15 (as claimed): with language zh and a provider top candidate that is a
\* syllable with a tone digit ("hao3"), on every provider path the candidate
\* reaches the resolver and the augmentation has mode singlePinyin, the base
\* as its only base and the digit as toneLabel.
C15_EndToEndPinyin ==
  \A r \in Requests :
    TonedSyllableCase(r) =>
      /\ req[r].out # <<>>
      /\ req[r].out[1] = ProviderTop(r)
      /\ req[r].zh.mode = "singlePinyin"
      /\ req[r].zh.bases = << StripTone(ProviderTop(r)) >>
      /\ req[r].zh.toneLabel = << ProviderTop(r)[Len(ProviderTop(r))] >>

\* ---------------------------------------------------------------------
\* The unknown character.

\* Run r of buildZhHomophones is over, was for a single Han character, and
\* none of its fetches rejected.
SingleCharRun(r) ==
  /\ SrvDone(r)
  /\ ZhMode(req[r].language, req[r].candidates) = "singleChar"
  /\ \A k \in 1..Len(req[r].fetches) : req[r].fetches[k].outcome # "reject"

\* Run r fetched the table and the response was non-ok.
TableNotOkIn(r) ==
  \E k \in 1..Len(req[r].fetches) :
    req[r].fetches[k].kind = "table" /\ req[r].fetches[k].outcome = "notok"

\* The character of run r has zero known readings: the table does not have
\* it, or the run's fetch of the table returned non-ok.
ZeroReadings(r) ==
  \/ ZhChar(req[r].candidates) \notin DOMAIN HanziDoc
  \/ TableNotOkIn(r)

\* C16: for a single Han character with zero known readings (absent from the
\* table, or the table fetch returned non-ok) the resolver returns a
\* singleChar result with input the character, bases [], homophones [] and
\* toneLabel null, and fetches no shard; it does not return null.
C16_UnknownChar ==
  \A r \in Requests :
    (SingleCharRun(r) /\ ZeroReadings(r)) =>
      /\ req[r].zh # NullResult
      /\ req[r].zh = [ mode |-> "singleChar",
                       input |-> << ZhChar(req[r].candidates) >>,
                       bases |-> <<>>,
                       homophones |-> <<>>,
                       toneLabel |-> NullLabel ]
      /\ \A k \in 1..Len(req[r].fetches) : req[r].fetches[k].kind # "shard"

\* One run for a character the table has got its table fetch answered
\* non-ok, another run for a character the table does not have read the
\* fetched table; both are over.
C16_Witness ==
  \E r \in Requests, q \in Requests :
    /\ SingleCharRun(r) /\ TableNotOkIn(r)
    /\ ZhChar(req[r].candidates) \in DOMAIN HanziDoc
    /\ SingleCharRun(q) /\ ~ TableNotOkIn(q)
    /\ ZhChar(req[q].candidates) \notin DOMAIN HanziDoc
    /\ HANZI_MAP # <<>>

\* ---------------------------------------------------------------------
\* toPinyinKey on its own: every string of up to MaxKeyLen characters of
\* KeyAlphabet is normalised, and the key is normalised again.

MaxKeyLen == 4

\* A letter, a capital, a tone digit, a digit that is no tone, white space,
\* a tone-marked vowel in lower and in upper case, and the bare u-diaeresis.
KeyAlphabet == { "h", "A", "3", "7", " ", "U+01CE", "U+01CD", "U+00FC" }

KeyInit ==
  /\ callPc = "key"
  /\ callIn \in SeqsUpTo(KeyAlphabet, MaxKeyLen)
  /\ callOut = <<>>
  /\ CodecIdle
  /\ FilterIdle
  /\ ResolverIdle

\* A caller normalises callIn, and normalises the key it got.
KeyCall ==
  /\ callPc = "key"
  /\ callOut' = [ first |-> toPinyinKey(callIn),
                  second |-> toPinyinKey(toPinyinKey(callIn)) ]
  /\ callPc' = "keyDone"
  /\ UNCHANGED << callIn, codecVars, filterVars, resolverVars >>

KeyNext == KeyCall

SpecKey == KeyInit /\ [][KeyNext]_vars

\* k is empty, or lowercase ASCII letters, or lowercase ASCII letters
\* followed by exactly one digit 1-5.
KeyShape(k) ==
  \/ k = <<>>
  \/ \A i \in 1..Len(k) : k[i] \in LowerSet
  \/ /\ Len(k) >= 2
     /\ \A i \in 1..(Len(k) - 1) : k[i] \in LowerSet
     /\ k[Len(k)] \in { "1", "2", "3", "4", "5" }

\* C17: toPinyinKey is idempotent, toPinyinKey(toPinyinKey(s)) equals
\* toPinyinKey(s) for every s, and every key is empty, lowercase ASCII
\* letters, or lowercase ASCII letters followed by exactly one digit 1-5.
C17_KeyIdempotent ==
  callPc = "keyDone" =>
    /\ callOut.second = callOut.first
    /\ KeyShape(callOut.first)

\* A string with white space, a capital and a tone-marked capital was
\* normalised to a key with a tone digit, and one with a digit that is no
\* tone to letters only.
C17_Witness ==
  /\ callPc = "keyDone"
  /\ \/ callIn = << " ", "A", "U+01CD" >> /\ callOut.first = << "a", "a", "3" >>
     \/ callIn = << "h", "3", "7" >> /\ callOut.first = << "h" >>

\* ---------------------------------------------------------------------
\* buildZhHomophones on its own: every top candidate of up to MaxTopLen
\* characters of TopAlphabet, and the tokens of LongTops, is classified
\* with the table loaded and every shard it may ask for in the cache.

MaxTopLen == 3

\* Two Han characters (the table has the first only), a full stop, a
\* letter, a capital, a vowel with a tone mark, a tone digit, a digit that
\* is no tone, and white space.
TopAlphabet == { "U+597D", "U+4F60", "U+3002", "h", "A", "U+01CE", "3", "7", " " }

\* Tokens of six and of seven characters.
LongTops ==
  { << "h", "h", "h", "h", "h", "h" >>,
    << "h", "h", "h", "h", "h", "3" >>,
    << "h", "h", "h", "h", "h", "h", "h" >>,
    << "h", "h", "h", "h", "h", "h", "3" >> }

TopPool == SeqsUpTo(TopAlphabet, MaxTopLen) \cup LongTops

\* SHARD_CACHE after loadPinyinShard was called for every base of the
\* table and of the pool: the shard where there is one, {} where not.
WarmBases ==
  (DOMAIN ShardDocs)
    \cup { StripTone(detectSinglePinyin(ZhTop(<< s >>))) : s \in TopPool }
WarmCache ==
  [ b \in WarmBases \ { <<>> } |->
      IF b \in DOMAIN ShardDocs THEN ShardDocs[b] ELSE EmptyObj ]

ClassifyInit ==
  /\ callPc = "classify"
  /\ callIn \in [ language : { ZH, ZhCN }, top : TopPool ]
  /\ callOut = <<>>
  /\ CodecIdle
  /\ FilterIdle
  /\ ResolverIdle

\* buildZhHomophones(baseUrl, [top], language) runs to its return.
ClassifyCall ==
  /\ callPc = "classify"
  /\ callOut' = SrvEnter([ IdleReq EXCEPT !.site = "srv", !.call = "handler",
                                          !.language = callIn.language,
                                          !.candidates = << callIn.top >> ],
                         << HanziDoc >>, WarmCache)
  /\ callPc' = "classifyDone"
  /\ UNCHANGED << callIn, codecVars, filterVars, resolverVars >>

ClassifyNext == ClassifyCall

SpecClassify == ClassifyInit /\ [][ClassifyNext]_vars

\* The Han characters of s, in order.
HanOf(s) == SelectSeq(s, LAMBDA c : c \in HanSet)

\* s is syllable-shaped: trimmed and in lower case it is not empty and has
\* no space, and with the tone marks folded it is letters with an optional
\* trailing digit 1-5, of at most MaxSyllableLen characters.
SyllableShaped(s) ==
  LET t0 == ToLowerCase(Trim(s))
      t == FoldTones(t0)
  IN  /\ t0 # <<>>
      /\ \A i \in 1..Len(t0) : t0[i] # " "
      /\ Len(t) >= 1 /\ Len(t) <= MaxSyllableLen
      /\ \/ \A i \in 1..Len(t) : t[i] \in LowerSet
         \/ /\ Len(t) >= 2
            /\ \A i \in 1..(Len(t) - 1) : t[i] \in LowerSet
            /\ t[Len(t)] \in { "1", "2", "3", "4", "5" }

EnCalled ==
  /\ callPc \in { "enWait", "enDone" }
  /\ SingleToken(EnTop(<< callIn >>))

\* The collaborator was queried, and with what.
EnQueried == callOut.fetches # <<>>
EnQueryToken == callOut.fetches[1].key

\* wordForm is available: the candidate is all digits in 0..9999, or parses
\* as a number word.
WordFormAvailable(top) ==
  IF AllDigits(top) THEN ParseInt(top) <= MaxInt
  ELSE englishWordToInt(top) # NaN

Alphabetic(w) == w # <<>> /\ \A i \in 1..Len(w) : w[i] \in LowerSet \cup UpperSet

\* Letters and hyphens only, and not empty.
LettersAndHyphens(w) ==
  w # <<>> /\ \A i \in 1..Len(w) : w[i] \in LowerSet \cup UpperSet \cup { "-" }

\* wordForm when available, else the raw candidate.
PreferredToken(top) ==
  IF WordFormAvailable(top) THEN EnForms(top).wordForm ELSE top

NumberWordCase ==
  /\ EnReturned
  /\ SingleToken(EnTop(<< callIn >>))
  /\ ~ AllDigits(EnTop(<< callIn >>))
  /\ englishWordToInt(EnTop(<< callIn >>)) # NaN

\* C20 (as claimed): for a non-digit top candidate that englishWordToInt
\* parses to n, digitForm is the decimal string of n and wordForm is
\* intToEnglishWord(n), the canonical spelling of n, also for a tens word
\* hyphenated with a teen or with "zero".
C20_CanonicalWordForm ==
  NumberWordCase =>
    LET top == EnTop(<< callIn >>)
        n == englishWordToInt(top)
    IN  /\ EnForms(top).digitForm = DecimalString(n)
        /\ EnForms(top).wordForm = intToEnglishWord(n)

\* C20 (amended): for a non-digit top candidate that englishWordToInt
\* parses to n, digitForm is the decimal string of n and wordForm is the
\* candidate itself in lower case, whatever its spelling; the query goes
\* out with it, and the alternates returned are the collaborator's words
\* and digitForm, so the canonical spelling of n is among them only if the
\* collaborator gave it.
C20_NormalizedWordForm ==
  NumberWordCase =>
    LET top == EnTop(<< callIn >>)
        n == englishWordToInt(top)
    IN  /\ EnForms(top).digitForm = DecimalString(n)
        /\ EnForms(top).wordForm = ToLowerCase(top)
        /\ EnQueried /\ EnQueryToken = ToLowerCase(top)
        /\ \A i \in 1..Len(EnHomophones) :
             \/ EnHomophones[i] = DecimalString(n)
             \/ \E j \in 1..Len(EnAnswer) : EnHomophones[i] = EnAnswer[j]

\* "twenty-fifteen" has returned with "35" for its only alternate.
C20_Witness ==
  /\ NumberWordCase
  /\ callIn = << "t","w","e","n","t","y","-","f","i","f","t","e","e","n" >>
  /\ EnHomophones = << << "3", "5" >> >>

\* ---------------------------------------------------------------------
\* englishWordToInt on its own: every phrase of up to MaxWords tokens of
\* WordTokens joined by the separators of WordSeps, with a few strings that
\* need normalizing.

MaxWords == 3

\* Ones, a teen, a tens word, the magnitudes, "and", and a word that is
\* none of them.
WordTokens ==
  { << "z", "e", "r", "o" >>, << "o", "n", "e" >>, << "f", "i", "f", "t", "e", "e", "n" >>, << "t", "w", "e", "n", "t", "y" >>, << "h", "u", "n", "d", "r", "e", "d" >>, << "t", "h", "o", "u", "s", "a", "n", "d" >>,
    << "a", "n", "d" >>, << "x" >> }

WordSeps == { << " " >>, << "-" >> }

\* The phrases of exactly n tokens.
RECURSIVE PhrasesOf(_)
PhrasesOf(n) ==
  IF n = 1 THEN WordTokens
  ELSE { p \o sep \o w : p \in PhrasesOf(n - 1), sep \in WordSeps, w \in WordTokens }

\* The empty string, white space, capitals with a spaced hyphen, runs of
\* spaces, and hyphens with nothing on one side.
OddPhrases ==
  { <<>>, << " " >>, << "T", "w", "e", "n", "t", "y", " ", "-", " ", "O", "n", "e" >>, << "o", "n", "e", " ", " ", "h", "u", "n", "d", "r", "e", "d" >>, << "-", "o", "n", "e" >>, << "t", "w", "e", "n", "t", "y", "-" >>, << "-" >> }

WordPool == (UNION { PhrasesOf(n) : n \in 1..MaxWords }) \cup OddPhrases

WordInit ==
  /\ callPc = "word"
  /\ callIn \in WordPool
  /\ callOut = <<>>
  /\ CodecIdle
  /\ FilterIdle
  /\ ResolverIdle

\* englishWordToInt(callIn) returns.
WordCall ==
  /\ callPc = "word"
  /\ callOut' = [ value |-> englishWordToInt(callIn) ]
  /\ callPc' = "wordDone"
  /\ UNCHANGED << callIn, codecVars, filterVars, resolverVars >>

WordNext == WordCall

SpecWord == WordInit /\ [][WordNext]_vars

\* The tokens of s after hyphen and space normalization.
TokensOf(s) == Split(normalizeNumberWord(s), " ")

\* A hyphenated tens-ones pair: two parts, a tens word and a ones or teens
\* word.
TensOnesPair(p) ==
  /\ Len(Split(p, "-")) = 2
  /\ IsTens(Split(p, "-")[1])
  /\ IsSmall(Split(p, "-")[2])

RecognizedToken(p) ==
  \/ IsSmall(p) \/ IsTens(p)
  \/ p \in { HundredWord, ThousandWord, AndWord }
  \/ TensOnesPair(p)

\* What a token adds to the current subtotal.
TokenValue(p) ==
  IF IsSmall(p) THEN SmallValue(p)
  ELSE IF IsTens(p) THEN TensValue(p)
  ELSE IF TensOnesPair(p)
    THEN TensValue(Split(p, "-")[1]) + SmallValue(Split(p, "-")[2])
  ELSE 0

\* The parse as the claim describes it, over parts[i..]: NaN for a token
\* that is not recognized, for "hundred" or "thousand" while the current
\* subtotal is zero, and for a total above 9999; total + current otherwise.
RECURSIVE ClaimedParse(_, _, _, _)
ClaimedParse(parts, i, total, current) ==
  IF i > Len(parts)
    THEN IF total + current > MaxInt THEN NaN ELSE total + current
  ELSE IF ~ RecognizedToken(parts[i]) THEN NaN
  ELSE IF parts[i] = HundredWord
    THEN IF current = 0 THEN NaN
         ELSE ClaimedParse(parts, i + 1, total, current * 100)
  ELSE IF parts[i] = ThousandWord
    THEN IF current = 0 THEN NaN
         ELSE ClaimedParse(parts, i + 1, total + current * 1000, 0)
  ELSE ClaimedParse(parts, i + 1, total, current + TokenValue(parts[i]))

\* C21: englishWordToInt returns NaN for every input that after hyphen and
\* space normalization has a token other than a ones/teens word, a tens
\* word, "hundred", "thousand" or "and" (a hyphenated tens-ones pair being
\* recognized only as a two-part pair), for "hundred" or "thousand" while
\* the current subtotal is zero, and for a total above 9999; otherwise it
\* returns total + current.
C21_ParseFailures ==
  callPc = "wordDone" =>
    /\ (\E i \in 1..Len(TokensOf(callIn)) : ~ RecognizedToken(TokensOf(callIn)[i])) =>
         callOut.value = NaN
    /\ callOut.value = ClaimedParse(TokensOf(callIn), 1, 0, 0)

\* ---------------------------------------------------------------------
\* detectSinglePinyin on its own: every string of up to MaxWritten
\* characters of WrittenAlphabet.

MaxWritten == 3

\* Letters, a and o with a caron (U+01CE, U+01D2), the bare u-diaeresis
\* (U+00FC), and a tone digit.
WrittenAlphabet == { "h", "a", "o", "U+01CE", "U+01D2", "U+00FC", "3" }

DetectInit ==
  /\ callPc = "detect"
  /\ callIn \in SeqsUpTo(WrittenAlphabet, MaxWritten)
  /\ callOut = <<>>
  /\ CodecIdle
  /\ FilterIdle
  /\ ResolverIdle

\* detectSinglePinyin(callIn) returns.
DetectCall ==
  /\ callPc = "detect"
  /\ callOut' = [ key |-> detectSinglePinyin(callIn) ]
  /\ callPc' = "detectDone"
  /\ UNCHANGED << callIn, codecVars, filterVars, resolverVars >>

DetectNext == DetectCall

SpecDetect == DetectInit /\ [][DetectNext]_vars

\* A vowel with a tone diacritic: toneMap gives it a vowel and a tone digit.
ToneMarked(c) == c \in DOMAIN toneMap /\ Len(toneMap[c]) = 2

\* s is a syllable in plain letters, or in letters plus a tone digit.
PlainForm(s) == s # <<>> /\ \A i \in 1..Len(s) : s[i] \in LowerSet
DigitForm(s) ==
  /\ Len(s) >= 2
  /\ PlainForm(SubSeq(s, 1, Len(s) - 1))
  /\ s[Len(s)] \in { "1", "2", "3", "4", "5" }

\* s is a syllable in letters with a tone diacritic on one vowel.
DiacriticForm(s) ==
  /\ \E i \in 1..Len(s) : ToneMarked(s[i])
  /\ \A i, j \in 1..Len(s) : (ToneMarked(s[i]) /\ ToneMarked(s[j])) => i = j
  /\ \A i \in 1..Len(s) : ToneMarked(s[i]) \/ s[i] \in LowerSet

\* The key of a syllable in the diacritic form: its letters, the marked
\* vowel bare, followed by the tone digit of the mark.
DiacriticKey(s) ==
  LET m == CHOOSE i \in 1..Len(s) : ToneMarked(s[i])
  IN  [ i \in 1..Len(s) |-> IF i = m THEN toneMap[s[i]][1] ELSE s[i] ]
        \o << toneMap[s[m]][2] >>

\* C22: detectSinglePinyin returns a key, not null, for a syllable in plain
\* letters, in letters plus tone digit, and in letters with a tone
\* diacritic on any vowel; for the diacritic form the key is the base
\* followed by the tone digit of the diacritic.
C22_ThreeForms ==
  callPc = "detectDone" =>
    /\ PlainForm(callIn) => callOut.key = callIn
    /\ DigitForm(callIn) => callOut.key = callIn
    /\ DiacriticForm(callIn) =>
         callOut.key # NullKey /\ callOut.key = DiacriticKey(callIn)

\* ---------------------------------------------------------------------
\* The caches over the life of the process.

\* Every base of the cache has an entry after the step.
KeepsEntries(cache, after) == \A b \in DOMAIN cache : b \in DOMAIN after

\* A table that is not null is not null after the step.
StaysLoaded(table, after) == table # <<>> => after # <<>>

\* C23: the caches only grow: a base that has an entry in a shard cache
\* (the handler's or the page's) keeps an entry in every later state, and
\* a logogram table variable that is not null never becomes null again.
C23_CachesGrow ==
  [][ /\ KeepsEntries(SHARD_CACHE, SHARD_CACHE')
      /\ KeepsEntries(shardCache, shardCache')
      /\ StaysLoaded(HANZI_MAP, HANZI_MAP')
      /\ StaysLoaded(hanziMap, hanziMap') ]_vars

\* The handler's cache holds two bases and its table is loaded, one run is
\* over, and another one is waiting for a shard that the cache does not
\* have yet.
C23_Witness ==
  /\ Cardinality(DOMAIN SHARD_CACHE) >= 2
  /\ HANZI_MAP # <<>>
  /\ \E r \in Requests, q \in Requests :
       /\ SrvDone(r)
       /\ req[q].site = "srv" /\ req[q].pc = "shard"
       /\ Pending(q).key \notin DOMAIN SHARD_CACHE

\* ---------------------------------------------------------------------
\* The Azure path's loop over the endpoints, contact by contact, in the
\* handler's two versions. What the first version does between the last
\* contact and its response (the two resolvers) contacts no endpoint and
\* is the subject of Spec.

\* endpoints, by the part of the path the response names.
Endpoints == << "conversation", "interactive", "dictation" >>

\* What an endpoint may answer: a rejected fetch, a non-ok response, or an
\* ok body with its NBest candidates and its DisplayText.
EndpointAnswers ==
  { [ outcome |-> "reject", body |-> <<>>, dt |-> <<>> ],
    [ outcome |-> "notok", body |-> <<>>, dt |-> <<>> ],
    [ outcome |-> "ok", body |-> <<>>, dt |-> <<>> ],
    [ outcome |-> "ok", body |-> <<>>, dt |-> << "U+4F60" >> ],
    [ outcome |-> "ok", body |-> << << "h", "e", "l", "l", "o" >> >>, dt |-> <<>> ],
    [ outcome |-> "ok", body |-> << << "U+597D", "U+3002" >> >>, dt |-> <<>> ] }

\* No response yet, no error yet.
NoError == "none"

AzureInit ==
  /\ callPc = "azure"
  /\ callIn \in [ version : { "first", "second" },
                   language : { ZhCN, EnUS },
                   answers : [ 1..Len(Endpoints) -> EndpointAnswers ] ]
  /\ callOut = [ i |-> 1, contacted |-> <<>>, lastErr |-> NoError,
                 responses |-> <<>> ]
  /\ CodecIdle
  /\ FilterIdle
  /\ ResolverIdle

\* The candidates a version of the handler makes of an ok answer.
CandidatesOf(version, a, language) ==
  IF version = "first" THEN AzureCandidates(a.body, language)
  ELSE AzureCandidatesDisplay(a.body, a.dt, language)

\* The loop, were it to go on after an endpoint that gave candidates.
AzureGoesOnAnyway(a, candidates) == TRUE

\* The loop goes on to the next endpoint: continue after a non-ok response,
\* or the fall through after an empty candidate list.
AzureGoesOn(a, candidates) == a.outcome = "notok" \/ Len(candidates) = 0

\* json(...) of the handler: one more response.
AzureRespond(st, status, candidates, error, endpoint) ==
  [ st EXCEPT !.responses = Append(@, [ status |-> status,
                                        candidates |-> candidates,
                                        error |-> error,
                                        endpoint |-> endpoint ]) ]

\* The handler fetches the next endpoint and goes on to its next await or
\* to its response.
AzureContact ==
  /\ callPc = "azure"
  /\ LET i == callOut.i
         a == callIn.answers[i]
         st == [ callOut EXCEPT !.contacted = Append(@, Endpoints[i]) ]
         candidates == IF a.outcome = "ok"
                         THEN CandidatesOf(callIn.version, a, callIn.language)
                         ELSE <<>>
         err == IF a.outcome = "notok" THEN "Azure error"
                ELSE "No speech recognized"
     IN  IF a.outcome = "reject"
           THEN /\ callOut' = AzureRespond(st, StatusError, <<>>, "thrown", "none")
                /\ callPc' = "azureDone"
         ELSE IF ~ AzureGoesOn(a, candidates)
           THEN /\ callOut' = AzureRespond(st, StatusOk, candidates, NoError,
                                           Endpoints[i])
                /\ callPc' = "azureDone"
         ELSE IF i = Len(Endpoints)
           THEN /\ callOut' = AzureRespond([ st EXCEPT !.lastErr = err ],
                                           StatusOk, <<>>, err, "none")
                /\ callPc' = "azureDone"
         ELSE /\ callOut' = [ st EXCEPT !.i = i + 1, !.lastErr = err ]
              /\ callPc' = "azure"
  /\ UNCHANGED << callIn, codecVars, filterVars, resolverVars >>

AzureNext == AzureContact

SpecAzure == AzureInit /\ [][AzureNext]_vars

\* What the k-th endpoint yields for the request: its candidates after
\* filtering (and normalization, or the DisplayText fallback); none when
\* its response is not ok.
Yield(k) ==
  IF callIn.answers[k].outcome = "ok"
    THEN CandidatesOf(callIn.version, callIn.answers[k], callIn.language)
    ELSE <<>>

\* The k-th endpoint failed: a non-ok response, or an empty candidate list.
EndpointFailed(k) ==
  callIn.answers[k].outcome = "notok"
    \/ (callIn.answers[k].outcome = "ok" /\ Yield(k) = <<>>)

\* C24: on the Azure path the endpoints conversation, interactive,
\* dictation are contacted in that order, endpoint k+1 only if endpoint k
\* returned non-ok or yielded an empty candidate list; at the first
\* endpoint that yields candidates the handler responds with status 200 and
\* those candidates without contacting a later one; after all three failed
\* it responds with status 200, candidates [] and an error string; and
\* there is exactly one response per request.
C24_EndpointFallback ==
  callPc \in { "azure", "azureDone" } =>
    LET n == Len(callOut.contacted) IN
    /\ n <= Len(Endpoints)
    /\ \A k \in 1..n : callOut.contacted[k] = Endpoints[k]
    /\ \A k \in 1..(n - 1) : EndpointFailed(k)
    /\ callPc = "azure" => callOut.responses = <<>>
    /\ callPc = "azureDone" =>
         /\ Len(callOut.responses) = 1
         /\ n >= 1
         /\ Yield(n) # <<>> =>
              /\ callOut.responses[1].status = StatusOk
              /\ callOut.responses[1].candidates = Yield(n)
              /\ callOut.responses[1].endpoint = Endpoints[n]
         /\ (n = Len(Endpoints) /\ EndpointFailed(n)) =>
              /\ callOut.responses[1].status = StatusOk
              /\ callOut.responses[1].candidates = <<>>
              /\ callOut.responses[1].error # NoError
         /\ (callOut.responses[1].status = StatusOk
               /\ callOut.responses[1].candidates # <<>>) => n >= 1 /\ Yield(n) # <<>>

\* The first endpoint answered non-ok, the second gave candidates and the
\* third would have given some too: the handler has responded with the
\* second's and never contacted the third.
C24_Witness ==
  /\ callPc = "azureDone"
  /\ callOut.contacted = << "conversation", "interactive" >>
  /\ callIn.answers[1].outcome = "notok"
  /\ Yield(2) # <<>>
  /\ Yield(3) # <<>>
  /\ callOut.responses[1].candidates = Yield(2)

====
